---------------------------- MODULE Spec2Model ----------------------------
(*
  Job registry, worker thread and request handlers of the hole-detection
  service (src/processing/pipeline.py, src/handlers.py, src/server.py).

  The four module-level dictionaries PROGRESS, MESH_FILES, HOLE_DATA and
  SELECTED_HOLES are functions whose DOMAIN is the set of keys present, so
  that `uid in D`, `D[uid]` (KeyError when absent) and `D.pop(uid, None)`
  are modelled as the code executes them.  One worker thread runs
  process_step_file_async per upload; ThreadingHTTPServer runs every request
  in a thread of its own, so a handler is a sequence of steps, one per
  statement that reads or writes a shared dictionary or a file.
*)
EXTENDS Integers, Sequences, FiniteSets, TLC

(* ------------------------------ bounds ------------------------------ *)
MaxJobs == 1          \* uploads; make_uid() hands out 1, 2, ... (uuid4: never reused)
MaxRequests == 2      \* GET requests served, each in a server thread of its own
MaxHoles == 1         \* longest hole list combine_and_group returns
MaxExported == 2      \* longest hole list handed to generate_export_json
MaxWorkers == 2       \* jobs whose workers run side by side in IsoSpec

JobUids == 1..MaxJobs
Bogus == 0            \* a uid string that names no job
AllUids == JobUids \cup {Bogus}
Threads == 1..MaxRequests
HoleIdArgs == 0..(MaxHoles + 1)   \* id=0 is the no-op; MaxHoles+1 is never a hole id

VARIABLES
  PROGRESS,        \* uid -> [percent, status]
  MESH_FILES,      \* uid -> None | path of mesh_<uid>.json
  HOLE_DATA,       \* uid -> list of holes
  SELECTED_HOLES,  \* uid -> set of hole ids
  meshDisk,        \* uids whose file mesh_<uid>.json exists in WEB_ROOT
  holesDisk,       \* uid -> content of holes_<uid>.json, for the files that exist
  exportDisk,      \* uid -> records of holes_export_<uid>.json, for the files that exist
  nextUid,         \* number of uids handed out so far, plus one
  wpc,             \* worker of uid: position in process_step_file_async
  holes,           \* worker of uid: local `holes`
  mesh,            \* worker of uid: what extract_mesh_from_shape did
  exc,             \* worker of uid: the call whose exception was caught
  thr,             \* server thread t: request, position, locals, response
  seen,            \* history: last percent a /progress response carried for uid
  deleted,         \* history: "no" | "started" | "returned", /delete on uid
  call,            \* a function of src/geometry called on its own: name, arguments, position
  ret              \* what that call returned

stores == <<PROGRESS, MESH_FILES, HOLE_DATA, SELECTED_HOLES>>
disk == <<meshDisk, holesDisk, exportDisk>>
pure == <<call, ret>>
served == <<stores, disk, nextUid, wpc, holes, mesh, exc, thr, seen, deleted>>
vars == <<PROGRESS, MESH_FILES, HOLE_DATA, SELECTED_HOLES, meshDisk, holesDisk,
          exportDisk, nextUid, wpc, holes, mesh, exc, thr, seen, deleted, call, ret>>

MaxTriangulated == 2  \* faces of the shape handed to extract_mesh_from_shape

MaxElements == 2      \* edges, or faces, of the shape an extractor scans

MaxSamples == 4       \* n_samples handed to sample_edge_points
MaxPolygon == 5       \* nodes of the polygon the kernel makes of an edge

MaxPoints == 5        \* longest point list handed to fit_circle_3d

(* --------------------------- dictionaries --------------------------- *)
\* D[k] = v
Put(D, k, v) == [x \in (DOMAIN D) \cup {k} |-> IF x = k THEN v ELSE D[x]]

\* D.pop(k, None)
Pop(D, k) == [x \in (DOMAIN D) \ {k} |-> D[x]]

EmptyDict == [x \in {} |-> 0]

(* ------------------------------ values ------------------------------ *)
None == <<>>
MeshPath(u) == <<"mesh", u>>

Prog(p, s) == [percent |-> p, status |-> s]

\* A float of a hole or of an export record is the integer number of
\* millionths it holds: 6.0 is 6000000, 14.2 is 14200000.
Unit == 1000000

\* the fields of a hole that generate_export_json reads
Hole(i, c, r, n, s) == [id |-> i, center |-> c, radius |-> r, num_circles |-> n,
                        score |-> s]

\* the hole of spec section 4.7: centre (10, 20, 5), radius 6.0, score 88.25
SampleHole(i) == Hole(i, <<10 * Unit, 20 * Unit, 5 * Unit>>, 6 * Unit, 2, 8825000)

\* the list combine_and_group returns: n holes with the dense ids 1..n
HoleList(n) == [i \in 1..n |-> SampleHole(i)]
HoleLists == {HoleList(n) : n \in 0..MaxHoles}
HoleIds(hs) == {hs[i].id : i \in 1..Len(hs)}

\* a status string: its fixed text, the hole count it embeds (f'Found {n}
\* holes...', f'Done - {n} holes detected') and, for f'Error: {str(e)}',
\* the call that raised e
Status(text, n, e) == [text |-> text, n |-> n, e |-> e]
IsError(s) == s.text = "Error: "

QueuedProgress == Prog(0, Status("Queued", 0, "none"))
LoadingProgress == Prog(5, Status("Loading STEP file", 0, "none"))
DetectingProgress == Prog(15, Status("Detecting holes", 0, "none"))
FoundProgress(n) == Prog(40, Status("Found holes, triangulating mesh", n, "none"))
\* the 'No mesh produced' exit stopping short of 100
NoMeshProgressShort == Prog(90, Status("No mesh produced", 0, "none"))

NoMeshProgress == Prog(100, Status("No mesh produced", 0, "none"))
\* a stage that reports less than the stage before it
SavingProgressLow == Prog(30, Status("Saving data", 0, "none"))

SavingProgress == Prog(75, Status("Saving data", 0, "none"))
DoneProgress(n) == Prog(100, Status("Done - holes detected", n, "none"))
ErrorProgress(e) == Prog(100, Status("Error: ", 0, e))

\* a server thread: the request (op, uid, hid), the statement it is at, its
\* locals (sel = selected_ids) and its response (status, body, pct, count);
\* status "KeyError" is the exception leaving do_GET unhandled; late records
\* that the request arrived after the worker of its uid had returned
\* no function of src/geometry is being called on its own
NoCall == [fn |-> "none", pc |-> "none"]
Quiet == call = NoCall /\ ret = None

IdleThread == [op |-> "idle", pc |-> "idle", uid |-> Bogus, hid |-> 0,
               late |-> FALSE, sel |-> {}, status |-> "none", body |-> {},
               pct |-> -1, count |-> -1]

\* the module-level dictionaries as created, nothing uploaded or requested yet
Constructed ==
  /\ PROGRESS = EmptyDict
  /\ MESH_FILES = EmptyDict
  /\ HOLE_DATA = EmptyDict
  /\ SELECTED_HOLES = EmptyDict
  /\ meshDisk = {}
  /\ holesDisk = EmptyDict
  /\ exportDisk = EmptyDict
  /\ nextUid = 1
  /\ wpc = [u \in JobUids |-> "none"]
  /\ holes = [u \in JobUids |-> <<>>]
  /\ mesh = [u \in JobUids |-> "none"]
  /\ exc = [u \in JobUids |-> "none"]
  /\ thr = [t \in Threads |-> IdleThread]
  /\ seen = [u \in AllUids |-> -1]
  /\ deleted = [u \in AllUids |-> "no"]

Init == Constructed /\ Quiet

(* ------------------------- POST /upload_step ------------------------- *)
\* the 400/500 early returns change nothing; otherwise a fresh uid is
\* queued and its worker thread is started
UploadTo(n) ==
  /\ nextUid <= n
  /\ PROGRESS' = Put(PROGRESS, nextUid, QueuedProgress)
  /\ wpc' = [wpc EXCEPT ![nextUid] = "l23"]
  /\ nextUid' = nextUid + 1
  /\ UNCHANGED <<MESH_FILES, HOLE_DATA, SELECTED_HOLES, disk, holes, mesh, exc,
                 thr, seen, deleted, pure>>

Upload == UploadTo(MaxJobs)

(* --------------------- process_step_file_async --------------------- *)
WFrame ==
  UNCHANGED <<meshDisk, holesDisk, exportDisk, nextUid, thr, seen, deleted, pure>>

Goto(u, l) == wpc' = [wpc EXCEPT ![u] = l]

\* an exception raised by call e is caught at line 64
Raise(u, e) ==
  /\ Goto(u, "l65")
  /\ exc' = [exc EXCEPT ![u] = e]

WriteLoading(u) ==
  /\ wpc[u] = "l23"
  /\ PROGRESS' = Put(PROGRESS, u, LoadingProgress)
  /\ Goto(u, "l24")
  /\ UNCHANGED <<MESH_FILES, HOLE_DATA, SELECTED_HOLES, holes, mesh, exc>>
  /\ WFrame

\* load_step_shape returns the shape or raises RuntimeError
LoadShape(u) ==
  /\ wpc[u] = "l24"
  /\ \/ Goto(u, "l26") /\ UNCHANGED exc
     \/ Raise(u, "load")
  /\ UNCHANGED <<stores, holes, mesh>>
  /\ WFrame

WriteDetecting(u) ==
  /\ wpc[u] = "l26"
  /\ PROGRESS' = Put(PROGRESS, u, DetectingProgress)
  /\ Goto(u, "l29")
  /\ UNCHANGED <<MESH_FILES, HOLE_DATA, SELECTED_HOLES, holes, mesh, exc>>
  /\ WFrame

\* lines 29-34: the three extractors (the explorer calls outside their
\* per-element try may raise) and combine_and_group
DetectHoles(u) ==
  /\ wpc[u] = "l29"
  /\ \/ \E hs \in HoleLists :
          /\ holes' = [holes EXCEPT ![u] = hs]
          /\ Goto(u, "l36")
          /\ UNCHANGED exc
     \/ Raise(u, "extract") /\ UNCHANGED holes
     \/ Raise(u, "cluster") /\ UNCHANGED holes
  /\ UNCHANGED <<stores, mesh>>
  /\ WFrame

WriteFound(u) ==
  /\ wpc[u] = "l36"
  /\ PROGRESS' = Put(PROGRESS, u, FoundProgress(Len(holes[u])))
  /\ Goto(u, "l39")
  /\ UNCHANGED <<MESH_FILES, HOLE_DATA, SELECTED_HOLES, holes, mesh, exc>>
  /\ WFrame

\* extract_mesh_from_shape: a mesh, or [], [] when the kernel produced no
\* vertex or no face ("empty") or when any exception was caught inside
\* it ("failed"); it raises nothing
MeshOutcomes == {"ok", "empty", "failed"}

ExtractMesh(u) ==
  /\ wpc[u] = "l39"
  /\ \E m \in MeshOutcomes :
       /\ mesh' = [mesh EXCEPT ![u] = m]
       /\ Goto(u, IF m = "ok" THEN "l47" ELSE "l41")
  /\ UNCHANGED <<stores, holes, exc>>
  /\ WFrame

\* lines 41-45: the 'No mesh produced' exit
NoMeshWriteProgress(u) ==
  /\ wpc[u] = "l41"
  /\ PROGRESS' = Put(PROGRESS, u, NoMeshProgress)
  /\ Goto(u, "l42")
  /\ UNCHANGED <<MESH_FILES, HOLE_DATA, SELECTED_HOLES, holes, mesh, exc>>
  /\ WFrame

NoMeshWriteMesh(u) ==
  /\ wpc[u] = "l42"
  /\ MESH_FILES' = Put(MESH_FILES, u, None)
  /\ Goto(u, "l43")
  /\ UNCHANGED <<PROGRESS, HOLE_DATA, SELECTED_HOLES, holes, mesh, exc>>
  /\ WFrame

\* the 'No mesh produced' exit dropping the holes, as the error exit does
NoMeshWriteHolesEmptied(u) ==
  /\ wpc[u] = "l43"
  /\ HOLE_DATA' = Put(HOLE_DATA, u, <<>>)
  /\ Goto(u, "l44")
  /\ UNCHANGED <<PROGRESS, MESH_FILES, SELECTED_HOLES, holes, mesh, exc>>
  /\ WFrame

NoMeshWriteHoles(u) ==
  /\ wpc[u] = "l43"
  /\ HOLE_DATA' = Put(HOLE_DATA, u, holes[u])
  /\ Goto(u, "l44")
  /\ UNCHANGED <<PROGRESS, MESH_FILES, SELECTED_HOLES, holes, mesh, exc>>
  /\ WFrame

NoMeshWriteSelected(u) ==
  /\ wpc[u] = "l44"
  /\ SELECTED_HOLES' = Put(SELECTED_HOLES, u, {})
  /\ Goto(u, "done")
  /\ UNCHANGED <<PROGRESS, MESH_FILES, HOLE_DATA, holes, mesh, exc>>
  /\ WFrame

\* lines 47-62: the success exit
WriteSaving(u) ==
  /\ wpc[u] = "l47"
  /\ PROGRESS' = Put(PROGRESS, u, SavingProgress)
  /\ Goto(u, "l51")
  /\ UNCHANGED <<MESH_FILES, HOLE_DATA, SELECTED_HOLES, holes, mesh, exc>>
  /\ WFrame

\* open(mesh_path, 'w') + json.dump of plain lists: the file is written, or
\* open raises and leaves no file
SaveMeshFile(u) ==
  /\ wpc[u] = "l51"
  /\ \/ /\ meshDisk' = meshDisk \cup {u}
        /\ Goto(u, "l56")
        /\ UNCHANGED exc
     \/ /\ Raise(u, "save_mesh")
        /\ UNCHANGED meshDisk
  /\ UNCHANGED <<stores, holesDisk, exportDisk, holes, mesh, nextUid, thr, seen,
                 deleted, pure>>

SaveHolesFile(u) ==
  /\ wpc[u] = "l56"
  /\ \/ /\ holesDisk' = Put(holesDisk, u, holes[u])
        /\ Goto(u, "l59")
        /\ UNCHANGED exc
     \/ /\ Raise(u, "save_holes")
        /\ UNCHANGED holesDisk
  /\ UNCHANGED <<stores, meshDisk, exportDisk, holes, mesh, nextUid, thr, seen,
                 deleted, pure>>

DoneWriteMesh(u) ==
  /\ wpc[u] = "l59"
  /\ MESH_FILES' = Put(MESH_FILES, u, MeshPath(u))
  /\ Goto(u, "l60")
  /\ UNCHANGED <<PROGRESS, HOLE_DATA, SELECTED_HOLES, holes, mesh, exc>>
  /\ WFrame

DoneWriteHoles(u) ==
  /\ wpc[u] = "l60"
  /\ HOLE_DATA' = Put(HOLE_DATA, u, holes[u])
  /\ Goto(u, "l61")
  /\ UNCHANGED <<PROGRESS, MESH_FILES, SELECTED_HOLES, holes, mesh, exc>>
  /\ WFrame

DoneWriteSelected(u) ==
  /\ wpc[u] = "l61"
  /\ SELECTED_HOLES' = Put(SELECTED_HOLES, u, {})
  /\ Goto(u, "l62")
  /\ UNCHANGED <<PROGRESS, MESH_FILES, HOLE_DATA, holes, mesh, exc>>
  /\ WFrame

DoneWriteProgress(u) ==
  /\ wpc[u] = "l62"
  /\ PROGRESS' = Put(PROGRESS, u, DoneProgress(Len(holes[u])))
  /\ Goto(u, "done")
  /\ UNCHANGED <<MESH_FILES, HOLE_DATA, SELECTED_HOLES, holes, mesh, exc>>
  /\ WFrame

\* lines 64-68: except Exception as e
ErrorWriteProgress(u) ==
  /\ wpc[u] = "l65"
  /\ PROGRESS' = Put(PROGRESS, u, ErrorProgress(exc[u]))
  /\ Goto(u, "l66")
  /\ UNCHANGED <<MESH_FILES, HOLE_DATA, SELECTED_HOLES, holes, mesh, exc>>
  /\ WFrame

ErrorWriteMesh(u) ==
  /\ wpc[u] = "l66"
  /\ MESH_FILES' = Put(MESH_FILES, u, None)
  /\ Goto(u, "l67")
  /\ UNCHANGED <<PROGRESS, HOLE_DATA, SELECTED_HOLES, holes, mesh, exc>>
  /\ WFrame

\* the error exit emptying the hole list of every job
ErrorWriteHolesAll(u) ==
  /\ wpc[u] = "l67"
  /\ HOLE_DATA' = [x \in (DOMAIN HOLE_DATA) \cup {u} |-> <<>>]
  /\ Goto(u, "l68")
  /\ UNCHANGED <<PROGRESS, MESH_FILES, SELECTED_HOLES, holes, mesh, exc>>
  /\ WFrame

\* the error exit publishing the holes found before the failure
ErrorWriteHolesKept(u) ==
  /\ wpc[u] = "l67"
  /\ HOLE_DATA' = Put(HOLE_DATA, u, holes[u])
  /\ Goto(u, "l68")
  /\ UNCHANGED <<PROGRESS, MESH_FILES, SELECTED_HOLES, holes, mesh, exc>>
  /\ WFrame

ErrorWriteHoles(u) ==
  /\ wpc[u] = "l67"
  /\ HOLE_DATA' = Put(HOLE_DATA, u, <<>>)
  /\ Goto(u, "l68")
  /\ UNCHANGED <<PROGRESS, MESH_FILES, SELECTED_HOLES, holes, mesh, exc>>
  /\ WFrame

ErrorWriteSelected(u) ==
  /\ wpc[u] = "l68"
  /\ SELECTED_HOLES' = Put(SELECTED_HOLES, u, {})
  /\ Goto(u, "done")
  /\ UNCHANGED <<PROGRESS, MESH_FILES, HOLE_DATA, holes, mesh, exc>>
  /\ WFrame

Worker(u) ==
  \/ WriteLoading(u) \/ LoadShape(u) \/ WriteDetecting(u) \/ DetectHoles(u)
  \/ WriteFound(u) \/ ExtractMesh(u)
  \/ NoMeshWriteProgress(u) \/ NoMeshWriteMesh(u) \/ NoMeshWriteHoles(u)
  \/ NoMeshWriteSelected(u)
  \/ WriteSaving(u) \/ SaveMeshFile(u) \/ SaveHolesFile(u)
  \/ DoneWriteMesh(u) \/ DoneWriteHoles(u) \/ DoneWriteSelected(u)
  \/ DoneWriteProgress(u)
  \/ ErrorWriteProgress(u) \/ ErrorWriteMesh(u) \/ ErrorWriteHoles(u)
  \/ ErrorWriteSelected(u)

(* ------------------------- UploadHandler.do_GET ------------------------- *)
\* uids a client can send: those upload responses carried, and a bogus one
ReqUids == {Bogus} \cup (1..(nextUid - 1))

\* the server gives request t a new thread
CanStart(t) == thr[t].op = "idle" /\ (IF t = 1 THEN TRUE ELSE thr[t - 1].op # "idle")

Request(op, u, h) ==
  [IdleThread EXCEPT !.op = op, !.uid = u, !.hid = h,
                     !.late = IF u \in JobUids THEN wpc[u] = "done" ELSE FALSE]
At(t, op, l) == thr[t].op = op /\ thr[t].pc = l
Step(t, r) == thr' = [thr EXCEPT ![t] = r]
Fail(t, r) == Step(t, [r EXCEPT !.pc = "done", !.status = "KeyError"])

HFrame == UNCHANGED <<nextUid, wpc, holes, mesh, exc, pure>>

\* /progress, line 79: `not uid or uid not in PROGRESS` -> 404
ProgressTest(t, u) ==
  /\ CanStart(t)
  /\ LET r == Request("progress", u, 0) IN
       IF u \notin DOMAIN PROGRESS
       THEN Step(t, [r EXCEPT !.pc = "done", !.status = "404"])
       ELSE Step(t, [r EXCEPT !.pc = "l87"])
  /\ UNCHANGED <<stores, disk, seen, deleted>>
  /\ HFrame

\* /progress, line 87: json.dumps(PROGRESS[uid])
ProgressRead(t) ==
  /\ At(t, "progress", "l87")
  /\ LET r == thr[t] IN
       IF r.uid \in DOMAIN PROGRESS
       THEN /\ Step(t, [r EXCEPT !.pc = "done", !.status = "200",
                                 !.pct = PROGRESS[r.uid].percent])
            /\ seen' = [seen EXCEPT ![r.uid] = PROGRESS[r.uid].percent]
       ELSE /\ Fail(t, r)
            /\ UNCHANGED seen
  /\ UNCHANGED <<stores, disk, deleted>>
  /\ HFrame

\* lines 147-150 on the set: remove when the test found the id, else add
Flip(s, h, present) == IF present THEN s \ {h} ELSE s \cup {h}

\* /api/toggle, line 136: `uid not in SELECTED_HOLES`
ToggleTestUid(t, u, h) ==
  /\ CanStart(t)
  /\ LET r == Request("toggle", u, h) IN
       Step(t, [r EXCEPT !.pc = IF u \notin DOMAIN SELECTED_HOLES
                                THEN "l137" ELSE "l139"])
  /\ UNCHANGED <<stores, disk, seen, deleted>>
  /\ HFrame

\* line 137: SELECTED_HOLES[uid] = set()
ToggleCreate(t) ==
  /\ At(t, "toggle", "l137")
  /\ SELECTED_HOLES' = Put(SELECTED_HOLES, thr[t].uid, {})
  /\ Step(t, [thr[t] EXCEPT !.pc = "l139"])
  /\ UNCHANGED <<PROGRESS, MESH_FILES, HOLE_DATA, disk, seen, deleted>>
  /\ HFrame

\* lines 139-145: id 0 returns list(SELECTED_HOLES[uid])
ToggleNoop(t) ==
  /\ At(t, "toggle", "l139")
  /\ thr[t].hid = 0
  /\ LET r == thr[t] IN
       IF r.uid \in DOMAIN SELECTED_HOLES
       THEN Step(t, [r EXCEPT !.pc = "done", !.status = "200",
                              !.body = SELECTED_HOLES[r.uid]])
       ELSE Fail(t, r)
  /\ UNCHANGED <<stores, disk, seen, deleted>>
  /\ HFrame

\* line 147: `hole_id in SELECTED_HOLES[uid]`
ToggleTestMember(t) ==
  /\ At(t, "toggle", "l139")
  /\ thr[t].hid # 0
  /\ LET r == thr[t] IN
       IF r.uid \in DOMAIN SELECTED_HOLES
       THEN Step(t, [r EXCEPT !.pc = IF r.hid \in SELECTED_HOLES[r.uid]
                                     THEN "l148" ELSE "l150"])
       ELSE Fail(t, r)
  /\ UNCHANGED <<stores, disk, seen, deleted>>
  /\ HFrame

\* line 148: SELECTED_HOLES[uid].remove(hole_id); KeyError from the
\* dictionary when the uid is gone, from set.remove when the id is gone
ToggleRemove(t) ==
  /\ At(t, "toggle", "l148")
  /\ LET r == thr[t] IN
       IF r.uid \in DOMAIN SELECTED_HOLES /\ r.hid \in SELECTED_HOLES[r.uid]
       THEN /\ SELECTED_HOLES' = Put(SELECTED_HOLES, r.uid,
                                     Flip(SELECTED_HOLES[r.uid], r.hid, TRUE))
            /\ Step(t, [r EXCEPT !.pc = "l155"])
       ELSE /\ Fail(t, r)
            /\ UNCHANGED SELECTED_HOLES
  /\ UNCHANGED <<PROGRESS, MESH_FILES, HOLE_DATA, disk, seen, deleted>>
  /\ HFrame

\* line 150: SELECTED_HOLES[uid].add(hole_id)
ToggleAdd(t) ==
  /\ At(t, "toggle", "l150")
  /\ LET r == thr[t] IN
       IF r.uid \in DOMAIN SELECTED_HOLES
       THEN /\ SELECTED_HOLES' = Put(SELECTED_HOLES, r.uid,
                                     Flip(SELECTED_HOLES[r.uid], r.hid, FALSE))
            /\ Step(t, [r EXCEPT !.pc = "l155"])
       ELSE /\ Fail(t, r)
            /\ UNCHANGED SELECTED_HOLES
  /\ UNCHANGED <<PROGRESS, MESH_FILES, HOLE_DATA, disk, seen, deleted>>
  /\ HFrame

\* line 155: the response carries list(SELECTED_HOLES[uid])
ToggleRespond(t) ==
  /\ At(t, "toggle", "l155")
  /\ LET r == thr[t] IN
       IF r.uid \in DOMAIN SELECTED_HOLES
       THEN Step(t, [r EXCEPT !.pc = "done", !.status = "200",
                              !.body = SELECTED_HOLES[r.uid]])
       ELSE Fail(t, r)
  /\ UNCHANGED <<stores, disk, seen, deleted>>
  /\ HFrame

\* the selection of line 8 skipped: every hole is exported
SelectedAll(hs, selected_ids) == hs

\* generate_export_json, line 8: the holes whose id is selected, in list order
SelectedOf(hs, selected_ids) == SelectSeq(hs, LAMBDA h : h.id \in selected_ids)

\* round(v, d) for m = 10^-d: the nearest multiple of m, a tie going to the
\* even one (what Python does when v is the float's exact value)
RoundTo(v, m) ==
  LET lo == (v \div m) * m
      rem == v - lo
  IN  IF 2 * rem < m THEN lo
      ELSE IF 2 * rem > m THEN lo + m
      ELSE IF (lo \div m) % 2 = 0 THEN lo ELSE lo + m

Round2(v) == RoundTo(v, Unit \div 100)
Round4(v) == RoundTo(v, Unit \div 10000)

\* the corners put at half the radius
OffHalf(r) == r \div 2

\* line 13: off = r * 0.7
Off(r) == (r * 7) \div 10

\* lines 22-25: one corner, every coordinate rounded to 2 decimals
Point(x, y, z) == [x |-> Round2(x), y |-> Round2(y), z |-> Round2(z)]

\* lines 14-26: the record of the i-th selected hole; HoleID <<"BS", i>> is
\* the string f"BS-{i}"
ExportRecord(i, h) ==
  LET cx == h.center[1]
      cy == h.center[2]
      cz == h.center[3]
      off == Off(h.radius)
  IN  [HoleID |-> <<"BS", i>>, Shape |-> 2, group |-> 0,
       radius |-> Round4(h.radius),
       num_circles |-> h.num_circles,
       score |-> Round2(h.score),
       point1 |-> Point(cx + off, cy + off, cz),
       point2 |-> Point(cx - off, cy + off, cz),
       point3 |-> Point(cx - off, cy - off, cz),
       point4 |-> Point(cx + off, cy - off, cz)]

\* lines 6-26: export_data["repositionPointDataArray"]
generate_export_json(hs, selected_ids) ==
  LET selected == SelectedOf(hs, selected_ids)
  IN  [i \in 1..Len(selected) |-> ExportRecord(i, selected[i])]

\* /api/export, line 163: `not uid or uid not in HOLE_DATA or uid not in
\* SELECTED_HOLES` -> 404
ExportTest(t, u) ==
  /\ CanStart(t)
  /\ LET r == Request("export", u, 0) IN
       IF u \notin DOMAIN HOLE_DATA \/ u \notin DOMAIN SELECTED_HOLES
       THEN Step(t, [r EXCEPT !.pc = "done", !.status = "404"])
       ELSE Step(t, [r EXCEPT !.pc = "l169"])
  /\ UNCHANGED <<stores, disk, seen, deleted>>
  /\ HFrame

\* line 169: selected_ids = SELECTED_HOLES[uid] (the local keeps the members
\* the set has at this read)
ExportReadSelected(t) ==
  /\ At(t, "export", "l169")
  /\ LET r == thr[t] IN
       IF r.uid \in DOMAIN SELECTED_HOLES
       THEN Step(t, [r EXCEPT !.pc = "l170", !.sel = SELECTED_HOLES[r.uid]])
       ELSE Fail(t, r)
  /\ UNCHANGED <<stores, disk, seen, deleted>>
  /\ HFrame

\* lines 170-177: holes = HOLE_DATA[uid]; generate_export_json writes
\* holes_export_<uid>.json (the write is taken to succeed); the response
\* carries the record count
ExportWrite(t) ==
  /\ At(t, "export", "l170")
  /\ LET r == thr[t] IN
       IF r.uid \in DOMAIN HOLE_DATA
       THEN LET out == generate_export_json(HOLE_DATA[r.uid], r.sel) IN
              /\ exportDisk' = Put(exportDisk, r.uid, out)
              /\ Step(t, [r EXCEPT !.pc = "done", !.status = "200",
                                   !.count = Len(out)])
       ELSE /\ Fail(t, r)
            /\ UNCHANGED exportDisk
  /\ UNCHANGED <<stores, meshDisk, holesDisk, seen, deleted>>
  /\ HFrame

\* /delete, lines 188-194: os.remove(mesh_path) when it exists (a uid always
\* arrives: the bogus uid is a non-empty string too)
DeleteMeshFile(t, u) ==
  /\ CanStart(t)
  /\ Step(t, [Request("delete", u, 0) EXCEPT !.pc = "l195"])
  /\ meshDisk' = meshDisk \ {u}
  /\ deleted' = [deleted EXCEPT ![u] = IF @ = "returned" THEN @ ELSE "started"]
  /\ UNCHANGED <<stores, holesDisk, exportDisk, seen>>
  /\ HFrame

\* lines 195-199: os.remove(hole_path) when it exists
DeleteHolesFile(t) ==
  /\ At(t, "delete", "l195")
  /\ holesDisk' = Pop(holesDisk, thr[t].uid)
  /\ Step(t, [thr[t] EXCEPT !.pc = "l200"])
  /\ UNCHANGED <<stores, meshDisk, exportDisk, seen, deleted>>
  /\ HFrame

\* line 200: PROGRESS.pop(uid, None)
DeletePopProgress(t) ==
  /\ At(t, "delete", "l200")
  /\ PROGRESS' = Pop(PROGRESS, thr[t].uid)
  /\ Step(t, [thr[t] EXCEPT !.pc = "l201"])
  /\ UNCHANGED <<MESH_FILES, HOLE_DATA, SELECTED_HOLES, disk, seen, deleted>>
  /\ HFrame

\* line 201: MESH_FILES.pop(uid, None)
DeletePopMesh(t) ==
  /\ At(t, "delete", "l201")
  /\ MESH_FILES' = Pop(MESH_FILES, thr[t].uid)
  /\ Step(t, [thr[t] EXCEPT !.pc = "l202"])
  /\ UNCHANGED <<PROGRESS, HOLE_DATA, SELECTED_HOLES, disk, seen, deleted>>
  /\ HFrame

\* line 202: HOLE_DATA.pop(uid, None)
DeletePopHoles(t) ==
  /\ At(t, "delete", "l202")
  /\ HOLE_DATA' = Pop(HOLE_DATA, thr[t].uid)
  /\ Step(t, [thr[t] EXCEPT !.pc = "l203"])
  /\ UNCHANGED <<PROGRESS, MESH_FILES, SELECTED_HOLES, disk, seen, deleted>>
  /\ HFrame

\* lines 203-207: SELECTED_HOLES.pop(uid, None) and the 200 response
DeletePopSelected(t) ==
  /\ At(t, "delete", "l203")
  /\ SELECTED_HOLES' = Pop(SELECTED_HOLES, thr[t].uid)
  /\ Step(t, [thr[t] EXCEPT !.pc = "done", !.status = "200"])
  /\ deleted' = [deleted EXCEPT ![thr[t].uid] = "returned"]
  /\ UNCHANGED <<PROGRESS, MESH_FILES, HOLE_DATA, disk, seen>>
  /\ HFrame

Progress(t) == (\E u \in ReqUids : ProgressTest(t, u)) \/ ProgressRead(t)

Toggle(t) ==
  \/ \E u \in ReqUids, h \in HoleIdArgs : ToggleTestUid(t, u, h)
  \/ ToggleCreate(t) \/ ToggleNoop(t) \/ ToggleTestMember(t)
  \/ ToggleRemove(t) \/ ToggleAdd(t) \/ ToggleRespond(t)

Export(t) ==
  (\E u \in ReqUids : ExportTest(t, u)) \/ ExportReadSelected(t) \/ ExportWrite(t)

Delete(t) ==
  \/ \E u \in ReqUids : DeleteMeshFile(t, u)
  \/ DeleteHolesFile(t) \/ DeletePopProgress(t) \/ DeletePopMesh(t)
  \/ DeletePopHoles(t) \/ DeletePopSelected(t)

Handler(t) == Progress(t) \/ Toggle(t) \/ Export(t) \/ Delete(t)

Next ==
  \/ Upload
  \/ \E u \in JobUids : Worker(u)
  \/ \E t \in Threads : Handler(t)

Spec == Init /\ [][Next]_vars

\* the worker thread is scheduled as long as it has a statement to run, and
\* every kernel and file call returns or raises
LiveSpec == Spec /\ \A u \in JobUids : WF_vars(Worker(u))

(* ------------------------ workers side by side ------------------------ *)
IsoUids == 1..MaxWorkers

\* the state after construction, with room for MaxWorkers workers
IsoInit ==
  /\ PROGRESS = EmptyDict
  /\ MESH_FILES = EmptyDict
  /\ HOLE_DATA = EmptyDict
  /\ SELECTED_HOLES = EmptyDict
  /\ meshDisk = {}
  /\ holesDisk = EmptyDict
  /\ exportDisk = EmptyDict
  /\ nextUid = 1
  /\ wpc = [u \in IsoUids |-> "none"]
  /\ holes = [u \in IsoUids |-> <<>>]
  /\ mesh = [u \in IsoUids |-> "none"]
  /\ exc = [u \in IsoUids |-> "none"]
  /\ thr = [t \in Threads |-> IdleThread]
  /\ seen = [u \in AllUids |-> -1]
  /\ deleted = [u \in AllUids |-> "no"]
  /\ Quiet

\* uploads and the steps of their workers, interleaved; no GET is served
IsoNext ==
  \/ UploadTo(MaxWorkers)
  \/ \E u \in IsoUids : Worker(u)

IsoSpec == IsoInit /\ [][IsoNext]_vars

(* ----------------------- generate_export_json ----------------------- *)
\* a hole whose floats do not sit on the export's decimals: centre
\* (-3.14159, 2.71828, 0.125), radius 6.12346, score 57.126
OddHole(i) == Hole(i, <<-3141590, 2718280, 125000>>, 6123460, 1, 57126000)

\* the hole lists of a finished job, ids 1..n
ExportLists ==
  UNION {{[i \in 1..n |-> IF k[i] THEN SampleHole(i) ELSE OddHole(i)] :
            k \in [1..n -> BOOLEAN]} : n \in 0..MaxExported}

\* job 1 finished on the success exit with holes hs, and toggles left the ids
\* sel selected (any id can be toggled in, also one that names no hole)
ExportInit ==
  \E hs \in ExportLists, sel \in SUBSET (1..(MaxExported + 1)) :
    /\ PROGRESS = [u \in {1} |-> DoneProgress(Len(hs))]
    /\ MESH_FILES = [u \in {1} |-> MeshPath(1)]
    /\ HOLE_DATA = [u \in {1} |-> hs]
    /\ SELECTED_HOLES = [u \in {1} |-> sel]
    /\ meshDisk = {1}
    /\ holesDisk = [u \in {1} |-> hs]
    /\ exportDisk = EmptyDict
    /\ nextUid = 2
    /\ wpc = [u \in JobUids |-> IF u = 1 THEN "done" ELSE "none"]
    /\ holes = [u \in JobUids |-> IF u = 1 THEN hs ELSE <<>>]
    /\ mesh = [u \in JobUids |-> IF u = 1 THEN "ok" ELSE "none"]
    /\ exc = [u \in JobUids |-> "none"]
    /\ thr = [t \in Threads |-> IdleThread]
    /\ seen = [u \in AllUids |-> -1]
    /\ deleted = [u \in AllUids |-> "no"]
    /\ Quiet

\* /api/export requests, and nothing else, are served
ExportNext == \E t \in Threads : Export(t)

ExportSpec == ExportInit /\ [][ExportNext]_vars

(* ------------------ combine_and_group and its scorer ------------------ *)
(*
  Numbers of src/geometry/extraction.py are fixed-point integers: a length
  (coordinate, radius, depth) counts quarters, so that the median of an even
  number of values on the half grid is exact; an axis component counts
  elevenths, so that (9, 6, 2)/11 is a unit vector; an alignment counts
  2400ths and a score eighths of a point, both rounded down.  The guard
  1e-10 of line 196 is kept as what it does on these grids: it puts the
  alignment strictly below |z| / norm.
*)
Quarter == 4            \* a length of 1.0
Eleventh == 11          \* an axis component of 1.0
AlignOne == 2400        \* an alignment of 1.0
Point8 == 8             \* a score of 1 point

RADIUS_MIN == 6                \* 1.5
RADIUS_MAX == 80               \* 20.0
CIRCLE_GROUPING_DISTANCE == 16 \* 4.0
MIN_VERTICAL_ALIGNMENT == 360  \* 0.15
MAX_CANDIDATES == 800
MIN_SCORE_THRESHOLD == 160     \* 20
Z_TOLERANCE == 48              \* 12.0

Sources == {"analytic_edge", "cylindrical_face", "fitted_edge"}

\* a CandidateCircle as the extractors append it
Circle(src, c, r, a) == [source |-> src, center |-> c, radius |-> r, axis |-> a]

Abs(x) == IF x < 0 THEN -x ELSE x
Max(S) == CHOOSE x \in S : \A y \in S : y <= x
Min(S) == CHOOSE x \in S : \A y \in S : x <= y

\* line 156: RADIUS_MIN <= c['radius'] <= RADIUS_MAX
InWindow(c) == RADIUS_MIN <= c.radius /\ c.radius <= RADIUS_MAX

\* eps-neighbours strictly nearer than eps
NearStrict(a, b) ==
  LET dx == a.center[1] - b.center[1]
      dy == a.center[2] - b.center[2]
      dz == a.center[3] - b.center[3]
  IN  Z_TOLERANCE * Z_TOLERANCE * (dx * dx + dy * dy)
        + (CIRCLE_GROUPING_DISTANCE * dz) * (CIRCLE_GROUPING_DISTANCE * dz)
      < (CIRCLE_GROUPING_DISTANCE * Z_TOLERANCE) * (CIRCLE_GROUPING_DISTANCE * Z_TOLERANCE)

\* lines 162-169: two feature points (x, y, z / z_scale), z_scale =
\* Z_TOLERANCE / CIRCLE_GROUPING_DISTANCE, lie within eps of each other
\* (both sides multiplied by Z_TOLERANCE squared)
Near(a, b) ==
  LET dx == a.center[1] - b.center[1]
      dy == a.center[2] - b.center[2]
      dz == a.center[3] - b.center[3]
  IN  Z_TOLERANCE * Z_TOLERANCE * (dx * dx + dy * dy)
        + (CIRCLE_GROUPING_DISTANCE * dz) * (CIRCLE_GROUPING_DISTANCE * dz)
      <= (CIRCLE_GROUPING_DISTANCE * Z_TOLERANCE) * (CIRCLE_GROUPING_DISTANCE * Z_TOLERANCE)

\* DBSCAN with min_samples = 1: every point is a core point, so a cluster is
\* all that a chain of eps-neighbours reaches
RECURSIVE Reach(_, _)
Reach(cs, S) ==
  LET T == S \cup {j \in 1..Len(cs) : \E i \in S : Near(cs[i], cs[j])}
  IN  IF T = S THEN S ELSE Reach(cs, T)

\* the indices of a set in ascending order (np.where)
RECURSIVE Ascending(_)
Ascending(S) == IF S = {} THEN <<>> ELSE <<Min(S)>> \o Ascending(S \ {Min(S)})

\* lines 169-176: the groups in ascending label order; DBSCAN numbers its
\* clusters in the order of their first point, and a group lists its members
\* in input order
Clusters(cs) ==
  LET first == {i \in 1..Len(cs) : i = Min(Reach(cs, {i}))}
      order == Ascending(first)
  IN  [k \in 1..Len(order) |->
         LET members == Ascending(Reach(cs, {order[k]}))
         IN  [m \in 1..Len(members) |-> cs[members[m]]]]

RECURSIVE SortAscending(_)
SortAscending(xs) ==
  IF Len(xs) <= 1 THEN xs
  ELSE LET rest == SortAscending(Tail(xs))
           k == Cardinality({i \in 1..Len(rest) : rest[i] < Head(xs)})
       IN  SubSeq(rest, 1, k) \o <<Head(xs)>> \o SubSeq(rest, k + 1, Len(rest))

\* np.median of a non-empty list: the middle value, or the mean of the two
\* middle values
Median(xs) ==
  LET sorted == SortAscending(xs)
      n == Len(xs)
  IN  IF n % 2 = 1 THEN sorted[(n + 1) \div 2]
      ELSE (sorted[n \div 2] + sorted[n \div 2 + 1]) \div 2

RECURSIVE Sum(_)
Sum(xs) == IF xs = <<>> THEN 0 ELSE Head(xs) + Sum(Tail(xs))

\* lines 178-184: `best`, the topmost analytic or cylindrical member, else the
\* topmost member (list.sort is stable, so the first of equal heights)
Representative(group) ==
  LET analytic == SelectSeq(group,
                    LAMBDA g : g.source \in {"analytic_edge", "cylindrical_face"})
      from == IF analytic # <<>> THEN analytic ELSE group
      top == Max({from[i].center[3] : i \in 1..Len(from)})
  IN  from[Min({i \in 1..Len(from) : from[i].center[3] = top})]

\* line 193
Weight(g) ==
  IF g.source = "cylindrical_face" THEN 3
  ELSE IF g.source = "analytic_edge" THEN 2 ELSE 1

\* line 195 times the sum of the weights: the weighted sum of the axes, which
\* points where np.average(axes, weights) points
AxisSum(group) ==
  [d \in 1..3 |-> Sum([i \in 1..Len(group) |-> Weight(group[i]) * group[i].axis[d]])]

\* a * b as <<thousands of 10000, rest>>, for a product beyond 2^31
Product(a, b) ==
  LET low == (a % 10000) * b
  IN  <<(a \div 10000) * b + low \div 10000, low % 10000>>
Less(p, r) == p[1] < r[1] \/ (p[1] = r[1] /\ p[2] < r[2])

\* lines 196-198: alignment = |z| / (norm + 1e-10) of the fused axis, in
\* 2400ths rounded down: the largest q with q / 2400 < |z| / norm, and 0 for
\* z = 0 (found in steps of 50, then of 1)
Alignment(group) ==
  LET axis == AxisSum(group)
      z2 == axis[3] * axis[3]
      norm2 == axis[1] * axis[1] + axis[2] * axis[2] + z2
      Below(q) == Less(Product(q * q, norm2), Product(AlignOne * AlignOne, z2))
  IN  IF z2 = 0 THEN 0
      ELSE LET c == Max({k \in 0..((AlignOne \div 50) - 1) : Below(50 * k)})
           IN  Max({q \in (50 * c)..(50 * c + 49) : Below(q)})

\* a penalty of 2 per unit of radius
RadiusTermSteep(avg_radius) ==
  LET far == Abs(avg_radius * 2 - 11 * Quarter)
      term == 25 * Point8 - far * 2
  IN  IF term < 0 THEN 0 ELSE term

\* line 127: max(0, 25 - abs(avg_radius - 5.5) * 1.5)
RadiusTerm(avg_radius) ==
  LET far == Abs(avg_radius * 2 - 11 * Quarter)      \* |r - 5.5| in eighths
      term == 25 * Point8 - (far * 3) \div 2
  IN  IF term < 0 THEN 0 ELSE term

\* lines 129-130
AlignmentTerm(alignment) ==
  IF alignment >= MIN_VERTICAL_ALIGNMENT
  THEN ((alignment - MIN_VERTICAL_ALIGNMENT) * 15 * Point8)
         \div (AlignOne - MIN_VERTICAL_ALIGNMENT)
  ELSE 0

\* a lone candidate supporting nothing
SupportTermNoLone(n) ==
  (IF n >= 4 THEN 40 ELSE IF n = 3 THEN 32 ELSE IF n = 2 THEN 24 ELSE 0) * Point8

\* lines 132-140
SupportTerm(n) ==
  (IF n >= 4 THEN 40 ELSE IF n = 3 THEN 32 ELSE IF n = 2 THEN 24 ELSE 15) * Point8

\* the three source tests chained with elif: the first bonus only
SourceTermFirst(sources, n) ==
  (IF "cylindrical_face" \in sources THEN 15
   ELSE IF "analytic_edge" \in sources THEN 10
   ELSE IF "fitted_edge" \in sources THEN (IF n >= 2 THEN 5 ELSE 3) ELSE 0) * Point8

\* lines 142-148
SourceTerm(sources, n) ==
  ( (IF "cylindrical_face" \in sources THEN 15 ELSE 0)
  + (IF "analytic_edge" \in sources THEN 10 ELSE 0)
  + (IF "fitted_edge" \in sources THEN (IF n >= 2 THEN 5 ELSE 3) ELSE 0) ) * Point8

\* the sum returned as it is
ClampNone(score) == score

\* line 150: max(0, min(100, score))
Clamp(score) ==
  IF score > 100 * Point8 THEN 100 * Point8 ELSE IF score < 0 THEN 0 ELSE score

SourcesOf(group) == {group[i].source : i \in 1..Len(group)}

\* lines 123-150; `representative` is not read
calculate_hole_score(group, representative, avg_radius, alignment) ==
  Clamp(RadiusTerm(avg_radius) + AlignmentTerm(alignment)
        + SupportTerm(Len(group)) + SourceTerm(SourcesOf(group), Len(group)))

\* every cluster kept, whatever its axis
DroppedNever(alignment) == FALSE

\* lines 200-201: the cluster is skipped
Dropped(alignment) == alignment < MIN_VERTICAL_ALIGNMENT

\* lines 186-220: the hole of a group, under the id it gets at line 212
Fuse(group, id, alignment) ==
  LET xs == [i \in 1..Len(group) |-> group[i].center[1]]
      ys == [i \in 1..Len(group) |-> group[i].center[2]]
      zs == [i \in 1..Len(group) |-> group[i].center[3]]
      avg_radius == Median([i \in 1..Len(group) |-> group[i].radius])
  IN  [id |-> id,
       center |-> <<Median(xs), Median(ys), Median(zs)>>,
       radius |-> avg_radius,
       num_circles |-> Len(group),
       z_depth |-> Max({zs[i] : i \in 1..Len(zs)}) - Min({zs[i] : i \in 1..Len(zs)}),
       vertical_alignment |-> alignment,
       score |-> calculate_hole_score(group, Representative(group), avg_radius,
                                      alignment),
       sources |-> SourcesOf(group)]

\* lines 174-220: the loop over the groups, found so far holding `holes`
RECURSIVE FuseAll(_, _)
FuseAll(groups, found) ==
  IF groups = <<>> THEN found
  ELSE LET alignment == Alignment(Head(groups))
       IN  IF Dropped(alignment) THEN FuseAll(Tail(groups), found)
           ELSE FuseAll(Tail(groups),
                        Append(found, Fuse(Head(groups), Len(found) + 1, alignment)))

\* a sort that is not stable: of two equal scores the later hole goes first
RECURSIVE SortByScoreUnstable(_)
SortByScoreUnstable(hs) ==
  IF Len(hs) <= 1 THEN hs
  ELSE LET rest == SortByScoreUnstable(Tail(hs))
           k == Cardinality({i \in 1..Len(rest) : rest[i].score >= Head(hs).score})
       IN  SubSeq(rest, 1, k) \o <<Head(hs)>> \o SubSeq(rest, k + 1, Len(rest))

\* line 222: holes.sort(key=score, reverse=True); the sort is stable, and
\* reverse=True keeps holes of equal score in their order
RECURSIVE SortByScore(_)
SortByScore(hs) ==
  IF Len(hs) <= 1 THEN hs
  ELSE LET rest == SortByScore(Tail(hs))
           k == Cardinality({i \in 1..Len(rest) : rest[i].score > Head(hs).score})
       IN  SubSeq(rest, 1, k) \o <<Head(hs)>> \o SubSeq(rest, k + 1, Len(rest))

\* line 223
AboveThreshold(hs) == SelectSeq(hs, LAMBDA h : h.score >= MIN_SCORE_THRESHOLD)

\* line 224: holes[:MAX_CANDIDATES]
Truncated(hs) == SubSeq(hs, 1, IF Len(hs) < MAX_CANDIDATES THEN Len(hs) ELSE MAX_CANDIDATES)

\* lines 222-224: the ranked list, each hole still under the id of line 212,
\* its place among the holes in cluster label order
Ranked(found) == Truncated(AboveThreshold(SortByScore(found)))

\* lines 226-227
Renumbered(hs) == [i \in 1..Len(hs) |-> [hs[i] EXCEPT !.id = i]]

\* the clustering run on every candidate
FilteredNot(all_circles) == all_circles

\* line 156
Filtered(all_circles) == SelectSeq(all_circles, InWindow)

\* lines 152-229
combine_and_group(all_circles) ==
  IF Len(all_circles) = 0 THEN <<>>
  ELSE LET filtered == Filtered(all_circles)
       IN  IF Len(filtered) = 0 THEN <<>>
           ELSE Renumbered(Ranked(FuseAll(Clusters(filtered), <<>>)))

(* ------------------- the functions called on their own ------------------- *)
MaxCircles == 3       \* longest candidate list handed to combine_and_group
MaxGroup == 4         \* largest group handed to calculate_hole_score

Up == <<0, 0, Eleventh>>
Down == <<0, 0, -Eleventh>>
Level == <<Eleventh, 0, 0>>
Tilted == <<9, 6, 2>>          \* |z| = 2/11 = 0.18

At3(x, y, z) == <<x * Quarter, y * Quarter, z * Quarter>>

\* the candidates the lists are made of: an analytic and a cylindrical one
\* 4.0 apart; fitted ones at (2, 3.75, 0), 4.25 from both and 3.75 from the
\* point midway between them, one of them pointing down; a level
\* and a vertical fitted circle 12.0 above the first; a circle of radius 1.0
\* lying between the second and the third; a far, large, tilted analytic one
Pool ==
  { Circle("analytic_edge", At3(0, 0, 0), 6 * Quarter, Up),
    Circle("cylindrical_face", At3(4, 0, 0), 6 * Quarter, Up),
    Circle("fitted_edge", <<2 * Quarter, 15, 0>>, 6 * Quarter, Up),
    Circle("fitted_edge", <<2 * Quarter, 15, 0>>, 20 * Quarter, Down),
    Circle("fitted_edge", At3(0, 0, 12), 6 * Quarter, Level),
    Circle("analytic_edge", At3(4, 4, 0), 1 * Quarter, Up),
    Circle("analytic_edge", At3(8, 8, 0), 20 * Quarter, Tilted),
    Circle("fitted_edge", At3(0, 0, 12), 6 * Quarter, Up) }

\* every list of up to MaxCircles candidates, in any order (the pipeline
\* passes analytic + cyls + fitted, each already inside the radius window)
CircleLists == UNION {[1..n -> Pool] : n \in 0..MaxCircles}

\* each hole as one candidate of source src with the hole's centre and
\* radius and a vertical axis
AsCircles(hs, src) ==
  [i \in 1..Len(hs) |-> Circle(src, hs[i].center, hs[i].radius, Up)]

AggInit ==
  /\ Constructed
  /\ \E cs \in CircleLists :
       call = [fn |-> "combine_and_group", pc |-> "call", run |-> 1,
               all_circles |-> cs, first |-> <<>>]
  /\ ret = None

\* combine_and_group(all_circles) runs and returns
CombineAndGroup ==
  /\ call.fn = "combine_and_group" /\ call.pc = "call"
  /\ ret' = combine_and_group(call.all_circles)
  /\ call' = [call EXCEPT !.pc = "returned"]
  /\ UNCHANGED served

\* the holes returned become the candidates of a second call
Regroup(src) ==
  /\ call.fn = "combine_and_group" /\ call.pc = "returned" /\ call.run = 1
  /\ call' = [call EXCEPT !.pc = "call", !.run = 2, !.first = ret,
                          !.all_circles = AsCircles(ret, src)]
  /\ ret' = None
  /\ UNCHANGED served

AggNext == CombineAndGroup \/ \E src \in Sources : Regroup(src)

AggSpec == AggInit /\ [][AggNext]_vars

\* groups of 1..MaxGroup members, one circle standing for each source
ScoreGroups ==
  UNION {[1..n -> {c \in Pool : c.radius = 6 * Quarter /\ c.center[3] = 0}] :
           n \in 1..MaxGroup}
ScoreRadii == {0, 6, 22, 24, 80, 400}            \* 0, 1.5, 5.5, 6.0, 20.0, 100.0
ScoreAlignments == {0, 359, 360, 1380, 2399, AlignOne}

ScoreInit ==
  /\ Constructed
  /\ \E g \in ScoreGroups, r \in ScoreRadii, a \in ScoreAlignments :
       call = [fn |-> "calculate_hole_score", pc |-> "call", group |-> g,
               avg_radius |-> r, alignment |-> a]
  /\ ret = None

CalculateHoleScore ==
  /\ call.fn = "calculate_hole_score" /\ call.pc = "call"
  /\ ret' = calculate_hole_score(call.group, Representative(call.group),
                                 call.avg_radius, call.alignment)
  /\ call' = [call EXCEPT !.pc = "returned"]
  /\ UNCHANGED served

ScoreNext == CalculateHoleScore

ScoreSpec == ScoreInit /\ [][ScoreNext]_vars

(* ---------------------- extract_mesh_from_shape ---------------------- *)
\* raw indices count from 0 as in the code: entry i of a list is xs[i + 1]
At0(xs, i) == xs[i + 1]

\* lines 28-31: the nodes of one triangulated face, each moved by the
\* location of the face (a shift along x)
Transformed(face) ==
  [i \in 1..Len(face.nodes) |->
     <<face.nodes[i][1] + face.loc, face.nodes[i][2], face.nodes[i][3]>>]

\* lines 32-35: the triangles of one face, their 1-based node numbers turned
\* into indices into raw_vertices
Rebased(face, base_idx) ==
  [i \in 1..Len(face.triangles) |->
     <<base_idx + (face.triangles[i][1] - 1),
       base_idx + (face.triangles[i][2] - 1),
       base_idx + (face.triangles[i][3] - 1)>>]

\* lines 20-36: raw_vertices and raw_faces after the faces of the shape were
\* visited; a face without triangulation adds nothing
RECURSIVE Collect(_, _, _)
Collect(faces, raw_vertices, raw_faces) ==
  IF faces = <<>> THEN [raw_vertices |-> raw_vertices, raw_faces |-> raw_faces]
  ELSE LET face == Head(faces)
       IN  IF face = None THEN Collect(Tail(faces), raw_vertices, raw_faces)
           ELSE Collect(Tail(faces),
                        raw_vertices \o Transformed(face),
                        raw_faces \o Rebased(face, Len(raw_vertices)))

\* every raw vertex kept
DeduplicateNot(raw_vertices) ==
  [vert_map |-> [v \in {raw_vertices[i] : i \in 1..Len(raw_vertices)} |->
                   (CHOOSE i \in 1..Len(raw_vertices) : raw_vertices[i] = v) - 1],
   vertices |-> raw_vertices]

\* lines 42-49: vert_map and vertices; a vertex is appended when its
\* coordinates are not yet a key of vert_map
RECURSIVE Deduplicate(_, _, _)
Deduplicate(raw_vertices, vert_map, vertices) ==
  IF raw_vertices = <<>> THEN [vert_map |-> vert_map, vertices |-> vertices]
  ELSE LET v == Head(raw_vertices)
       IN  IF v \notin DOMAIN vert_map
           THEN Deduplicate(Tail(raw_vertices), Put(vert_map, v, Len(vertices)),
                            Append(vertices, v))
           ELSE Deduplicate(Tail(raw_vertices), vert_map, vertices)

Deduplicated(raw_vertices) == Deduplicate(raw_vertices, EmptyDict, <<>>)

\* lines 51-58: the faces with their indices looked up in vert_map; a face
\* whose lookup raises KeyError is left out
Remapped(raw_vertices, raw_faces, vert_map) ==
  LET known == SelectSeq(raw_faces, LAMBDA f :
                 \A k \in 1..3 : At0(raw_vertices, f[k]) \in DOMAIN vert_map)
  IN  [i \in 1..Len(known) |->
         <<vert_map[At0(raw_vertices, known[i][1])],
           vert_map[At0(raw_vertices, known[i][2])],
           vert_map[At0(raw_vertices, known[i][3])]>>]

\* lines 13-63; a kernel call that raises ends in the handler of line 61
extract_mesh_from_shape(shape) ==
  IF shape.raises THEN <<<<>>, <<>>>>
  ELSE LET raw == Collect(shape.faces, <<>>, <<>>)
       IN  IF Len(raw.raw_vertices) = 0 \/ Len(raw.raw_faces) = 0
           THEN <<<<>>, <<>>>>
           ELSE LET d == Deduplicated(raw.raw_vertices)
                IN  <<d.vertices,
                      Remapped(raw.raw_vertices, raw.raw_faces, d.vert_map)>>

\* node coordinates the kernel hands out, and the shifts of a face location
NodePoints == {<<0, 0, 0>>, <<1, 0, 0>>, <<0, 1, 0>>}
Locations == {0, 1}

\* a face of the shape: no triangulation, or three nodes (the kernel shares
\* coincident nodes within one face, so they are distinct) in any order and
\* one or two triangles over them
KernelFaces ==
  {None} \cup
  [nodes : {ns \in [1..3 -> NodePoints] : \A i, j \in 1..3 : ns[i] = ns[j] => i = j},
   triangles : {<<<<1, 2, 3>>>>, <<<<1, 2, 3>>, <<3, 2, 1>>>>},
   loc : Locations]

Shapes ==
  [faces : UNION {[1..n -> KernelFaces] : n \in 0..MaxTriangulated},
   raises : BOOLEAN]

MeshInit ==
  /\ Constructed
  /\ \E shape \in Shapes :
       call = [fn |-> "extract_mesh_from_shape", pc |-> "call", shape |-> shape]
  /\ ret = None

\* extract_mesh_from_shape(shape) runs and returns
ExtractMeshFromShape ==
  /\ call.fn = "extract_mesh_from_shape" /\ call.pc = "call"
  /\ ret' = extract_mesh_from_shape(call.shape)
  /\ call' = [call EXCEPT !.pc = "returned"]
  /\ UNCHANGED served

MeshNext == ExtractMeshFromShape

MeshSpec == MeshInit /\ [][MeshNext]_vars

(* ------------------------- the three extractors ------------------------- *)
ARC_MIN_SPAN_RAD == 4           \* 1.0, in quarters of a radian

\* abs(axis.Z()) >= MIN_VERTICAL_ALIGNMENT for a unit axis in elevenths
AxisAligned(axis) == Abs(axis[3]) * AlignOne >= MIN_VERTICAL_ALIGNMENT * Eleventh

\* an element of the shape as the kernel, the sampler and the fitter answer
\* for it: raises (a kernel call on it raises), type of its curve or surface,
\* radius and axis of its circle or cylinder or of the circle fitted to it,
\* sampled (points sample_edge_points returns), fit (fit_circle_3d finds a
\* circle) and span of the fit in quarters of a radian
Element(raising, type, r, a, n, fit, span) ==
  [raises |-> raising, type |-> type, center |-> At3(0, 0, 0), radius |-> r,
   axis |-> a, sampled |-> n, fit |-> fit, span |-> span]

Edges ==
  { Element(FALSE, "circle", 6 * Quarter, Up, 0, FALSE, 0),
    Element(FALSE, "circle", 6 * Quarter, Level, 0, FALSE, 0),
    Element(FALSE, "circle", 25 * Quarter, Up, 0, FALSE, 0),
    Element(TRUE, "circle", 6 * Quarter, Up, 0, FALSE, 0),
    Element(FALSE, "spline", 6 * Quarter, Down, 120, TRUE, 25),
    Element(FALSE, "spline", 6 * Quarter, Level, 120, TRUE, 25),
    Element(FALSE, "spline", 1 * Quarter, Up, 120, TRUE, 25),
    Element(FALSE, "spline", 6 * Quarter, Up, 120, TRUE, 2),
    Element(FALSE, "spline", 6 * Quarter, Up, 120, FALSE, 0),
    Element(FALSE, "line", 0, Up, 0, FALSE, 0),
    Element(TRUE, "spline", 6 * Quarter, Up, 120, TRUE, 25) }

Faces ==
  { Element(FALSE, "cylinder", 6 * Quarter, Up, 0, FALSE, 0),
    Element(FALSE, "cylinder", 6 * Quarter, Level, 0, FALSE, 0),
    Element(FALSE, "cylinder", 6 * Quarter, Tilted, 0, FALSE, 0),
    Element(FALSE, "cylinder", 25 * Quarter, Up, 0, FALSE, 0),
    Element(FALSE, "plane", 0, Up, 0, FALSE, 0),
    Element(TRUE, "cylinder", 6 * Quarter, Up, 0, FALSE, 0) }

Extractors ==
  {"extract_analytic_circular_edges", "extract_cylindrical_faces",
   "extract_fitted_circles_from_edges"}

\* what TopExp_Explorer enumerates for the extractor
ElementsFor(fn) == IF fn = "extract_cylindrical_faces" THEN Faces ELSE Edges

\* one pass of a loop body: the candidate appended, if any, and the number of
\* exp.Next() calls made before the loop test is reached again
Pass(circle, nexts) == [circle |-> circle, nexts |-> nexts]

\* the body ran to its end (or into `except: pass`): the exp.Next() that ends it
ThroughBody(circle) == Pass(circle, 1)

\* exp.Next() before a `continue` that does not leave the body: the
\* exp.Next() that ends the body runs too
NextTwice == Pass(None, 2)

\* lines 86-87, 92-93, 97-98, 103-104, 107-108: exp.Next() and continue
NextAndContinue == Pass(None, 1)

\* lines 23-43
AnalyticPass(e) ==
  IF e.raises THEN ThroughBody(None)
  ELSE IF e.type = "circle"
          /\ RADIUS_MIN <= e.radius /\ e.radius <= RADIUS_MAX
          /\ AxisAligned(e.axis)
       THEN ThroughBody(Circle("analytic_edge", e.center, e.radius, e.axis))
       ELSE ThroughBody(None)

\* lines 52-72
CylinderPass(e) ==
  IF e.raises THEN ThroughBody(None)
  ELSE IF e.type = "cylinder"
          /\ RADIUS_MIN <= e.radius /\ e.radius <= RADIUS_MAX
          /\ AxisAligned(e.axis)
       THEN ThroughBody(Circle("cylindrical_face", e.center, e.radius, e.axis))
       ELSE ThroughBody(None)

\* lines 81-119; the candidate's arc_span is read by nobody and left out
FittedPass(e) ==
  IF e.raises THEN ThroughBody(None)
  ELSE IF e.type = "circle" THEN NextAndContinue
  ELSE IF e.sampled < 4 THEN NextAndContinue
  ELSE IF ~e.fit THEN NextAndContinue
  ELSE IF ~(RADIUS_MIN <= e.radius /\ e.radius <= RADIUS_MAX) THEN NextAndContinue
  ELSE IF e.span < ARC_MIN_SPAN_RAD THEN NextAndContinue
  ELSE ThroughBody(Circle("fitted_edge", e.center, e.radius, e.axis))

PassOf(fn, e) ==
  IF fn = "extract_analytic_circular_edges" THEN AnalyticPass(e)
  ELSE IF fn = "extract_cylindrical_faces" THEN CylinderPass(e)
  ELSE FittedPass(e)

\* an extractor is called on a shape of up to MaxElements elements; exp is the
\* explorer's place, circles the list built so far, visits how often the body
\* ran on each element
ExtractInit ==
  /\ Constructed
  /\ \E fn \in Extractors :
       \E shape \in UNION {[1..n -> ElementsFor(fn)] : n \in 0..MaxElements} :
         call = [fn |-> fn, pc |-> "call", shape |-> shape, exp |-> 1,
                 circles |-> <<>>, visits |-> [i \in 1..Len(shape) |-> 0]]
  /\ ret = None

\* while exp.More(): one pass of the body
ExtractPass ==
  /\ call.fn \in Extractors /\ call.pc = "call"
  /\ call.exp <= Len(call.shape)
  /\ LET pass == PassOf(call.fn, call.shape[call.exp])
     IN  call' = [call EXCEPT
                    !.circles = IF pass.circle = None THEN @
                                ELSE Append(@, pass.circle),
                    !.exp = @ + pass.nexts,
                    !.visits[call.exp] = @ + 1]
  /\ UNCHANGED <<ret, served>>

\* exp.More() is false: return circles
ExtractReturn ==
  /\ call.fn \in Extractors /\ call.pc = "call"
  /\ call.exp > Len(call.shape)
  /\ ret' = call.circles
  /\ call' = [call EXCEPT !.pc = "returned"]
  /\ UNCHANGED served

ExtractNext == ExtractPass \/ ExtractReturn

ExtractSpec == ExtractInit /\ [][ExtractNext]_vars

\* the interpreter keeps running the loop
ExtractLiveSpec == ExtractSpec /\ WF_vars(ExtractNext)

(* -------------------------- sample_edge_points -------------------------- *)
\* a point as the strategy that made it and its number
Sampled(strategy, i) == <<strategy, i>>

\* lines 18-23: the points of the parameter values whose evaluation does not
\* raise, in order
RECURSIVE Evaluated(_, _, _)
Evaluated(i, n, fails) ==
  IF i > n THEN <<>>
  ELSE (IF i \in fails THEN <<>> ELSE <<Sampled("parametric", i)>>)
         \o Evaluated(i + 1, n, fails)

\* lines 13-27: pts after the parametric pass, and whether line 25 returned
Parametric(edge, n) ==
  IF edge.adaptor = "raises" THEN [pts |-> <<>>, returned |-> FALSE]
  ELSE IF edge.adaptor = "flat" THEN [pts |-> <<>>, returned |-> FALSE]
  ELSE LET pts == Evaluated(1, n, edge.fails)
       IN  [pts |-> pts, returned |-> Len(pts) >= 4]

\* lines 36-39: the nodes appended before a node raises (raisesAt = 0: none does)
Nodes(edge) ==
  LET last == IF edge.raisesAt = 0 THEN edge.nodes ELSE edge.raisesAt - 1
  IN  [i \in 1..last |-> Sampled("polygon", i)]

\* lines 30-45: pts is not emptied before the fallback, and every way out of
\* the fallback returns it
Fallback(edge, pts) ==
  IF edge.polygon = "raises" THEN pts
  ELSE IF edge.polygon = "none" THEN pts
  ELSE pts \o Nodes(edge)

\* lines 10-45
sample_edge_points(edge, n_samples) ==
  LET first == Parametric(edge, n_samples)
  IN  IF first.returned THEN first.pts ELSE Fallback(edge, first.pts)

\* an edge as the kernel answers for it: adaptor (BRepAdaptor_Curve and its
\* parameters raise, the domain is flat, or it is valid), fails (the sample
\* numbers whose Value(t) raises), polygon (the meshing raises, there is no
\* polygon, or there is one), nodes of the polygon and the node whose read raises
SampledEdges ==
  { e \in [adaptor : {"raises", "flat", "ok"}, fails : SUBSET (1..MaxSamples),
           polygon : {"raises", "none", "ok"}, nodes : 0..MaxPolygon,
           raisesAt : 0..MaxPolygon] :
      /\ e.adaptor # "ok" => e.fails = {}
      /\ e.polygon # "ok" => e.nodes = 0
      /\ e.raisesAt <= e.nodes }

SampleInit ==
  /\ Constructed
  /\ \E edge \in SampledEdges :
       call = [fn |-> "sample_edge_points", pc |-> "call", edge |-> edge,
               n_samples |-> MaxSamples]
  /\ ret = None

\* sample_edge_points(edge, n_samples) runs and returns
SampleEdgePoints ==
  /\ call.fn = "sample_edge_points" /\ call.pc = "call"
  /\ ret' = sample_edge_points(call.edge, call.n_samples)
  /\ call' = [call EXCEPT !.pc = "returned"]
  /\ UNCHANGED served

SampleNext == SampleEdgePoints

SampleSpec == SampleInit /\ [][SampleNext]_vars

(* ----------------------------- fit_circle_3d ----------------------------- *)
(* Points have integer coordinates and the arithmetic is exact: a real     *)
(* number is a reduced ratio <<numerator, denominator>>. The radius is     *)
(* kept as its square and an angle in eighths of a turn. The points of a   *)
(* call lie in a plane across one coordinate axis; in place of the         *)
(* singular vectors of line 16 the in-plane axes are the coordinate axes   *)
(* of that plane: the solution of x^2 + y^2 = a x + b y + c by least       *)
(* squares gives the same circle in every orthonormal basis of the plane,  *)
(* and the differences of the angles do not depend on the basis.           *)
RECURSIVE GCD(_, _)
GCD(a, b) == IF b = 0 THEN a ELSE GCD(b, a % b)

Ratio(n, d) ==
  LET g == GCD(Abs(n), Abs(d))
      s == IF d < 0 THEN -1 ELSE 1
  IN  <<(s * n) \div g, (s * d) \div g>>

Whole(k) == <<k, 1>>

LexLess(p, q) ==
  \/ p[1] < q[1]
  \/ p[1] = q[1] /\ p[2] < q[2]
  \/ p[1] = q[1] /\ p[2] = q[2] /\ p[3] < q[3]

RECURSIVE SortLex(_)
SortLex(S) ==
  IF S = {} THEN <<>>
  ELSE LET first == CHOOSE p \in S : \A q \in S : p = q \/ LexLess(p, q)
       IN  <<first>> \o SortLex(S \ {first})

\* the rows as they come, duplicates and all
UniqueNot(points) == points

\* line 8: np.unique(pts, axis=0), the distinct rows in lexicographic order
Unique(points) == SortLex({points[i] : i \in 1..Len(points)})

\* the sum of f(i) over the points
RECURSIVE Total(_, _, _)
Total(f(_), i, n) == IF i > n THEN 0 ELSE f(i) + Total(f, i + 1, n)

\* lines 12-13: X = pts - centroid, every entry multiplied by the number of
\* points: n p - (sum of the points)
Centred(pts) ==
  LET n == Len(pts)
      sum(k) == LET at(i) == pts[i][k] IN Total(at, 1, n)
  IN  [i \in 1..n |-> [k \in 1..3 |-> n * pts[i][k] - sum(k)]]

\* X has no extent along axis k
Flat(X, k) == \A i \in 1..Len(X) : X[i][k] = 0

\* lines 16-26: normal is a direction along which X has no extent, x_axis one
\* along which it has some, y_axis the third; normal and x_axis are rows of
\* an orthogonal matrix, so y_norm is 1 and line 25 is not reached. For
\* points on one line two axes are flat and either may come out as normal.
Bases(X) ==
  {b \in [x_axis : 1..3, y_axis : 1..3, normal : 1..3] :
     /\ b.x_axis # b.y_axis /\ b.x_axis # b.normal /\ b.y_axis # b.normal
     /\ Flat(X, b.normal) /\ ~Flat(X, b.x_axis)}

\* lines 28-35: the sums of the normal equations of A coeffs = b, where
\* A = [x, y, 1] and b = x^2 + y^2 (x and y sum to 0)
Moments(X, basis) ==
  LET n == Len(X)
      x(i) == X[i][basis.x_axis]
      y(i) == X[i][basis.y_axis]
      b(i) == x(i) * x(i) + y(i) * y(i)
      xx(i) == x(i) * x(i)
      yy(i) == y(i) * y(i)
      xy(i) == x(i) * y(i)
      xb(i) == x(i) * b(i)
      yb(i) == y(i) * b(i)
      bb(i) == b(i) * b(i)
  IN  [Sxx |-> Total(xx, 1, n), Syy |-> Total(yy, 1, n), Sxy |-> Total(xy, 1, n),
       Sxb |-> Total(xb, 1, n), Syb |-> Total(yb, 1, n), Sb |-> Total(b, 1, n),
       Sbb |-> Total(bb, 1, n)]

\* line 35: coeffs = (a, b_c, c) with a = A / D, b_c = B / D and c = Sb / n,
\* from the sums m; rank 3 by Cramer's rule; when every y is 0 the rank is 2
\* and lstsq gives the solution of least norm, b_c = 0
Solved(m) ==
  LET det == m.Sxx * m.Syy - m.Sxy * m.Sxy
      A == IF det = 0 THEN m.Sxb ELSE m.Syy * m.Sxb - m.Sxy * m.Syb
      B == IF det = 0 THEN 0 ELSE m.Sxx * m.Syb - m.Sxy * m.Sxb
      D == IF det = 0 THEN m.Sxx ELSE det
      g == GCD(GCD(Abs(A), Abs(B)), D)
  IN  [A |-> A \div g, B |-> B \div g, D |-> D \div g,
       rank |-> IF det = 0 THEN 2 ELSE 3, m |-> m]

\* lines 28-35: np.linalg.lstsq(A, b) on the points X in the basis
Lstsq(X, basis) == Solved(Moments(X, basis))

RESIDUAL_MAX == 50000           \* 5e4

\* line 36: residuals is empty unless A has full rank and more rows than
\* columns; residuals[0] = b.b - coeffs.(A^T b), here times n^4
TooScattered(X, fit) ==
  LET n == Len(X)
      m == fit.m
      num == n * fit.D * m.Sbb - n * fit.A * m.Sxb - n * fit.B * m.Syb
               - fit.D * m.Sb * m.Sb
      den == n * fit.D
      most == RESIDUAL_MAX * n * n * n * n
  IN  /\ fit.rank = 3 /\ n > 3
      /\ \/ num \div den > most
         \/ num \div den = most /\ num % den > 0

\* lines 41-44: radius_sq = c + cx^2 + cy^2, here times n^2
RadiusSq(X, fit) ==
  LET n == Len(X)
  IN  <<4 * fit.D * fit.D * fit.m.Sb + n * (fit.A * fit.A + fit.B * fit.B),
        4 * n * fit.D * fit.D>>

\* line 49: centroid + cx x_axis + cy y_axis
Center3d(pts, basis, fit) ==
  LET n == Len(pts)
      sum(k) == LET at(i) == pts[i][k] IN Total(at, 1, n)
  IN  [k \in 1..3 |->
         IF k = basis.x_axis THEN Ratio(2 * fit.D * sum(k) + fit.A, 2 * n * fit.D)
         ELSE IF k = basis.y_axis THEN Ratio(2 * fit.D * sum(k) + fit.B, 2 * n * fit.D)
         ELSE Ratio(sum(k), n)]

\* lines 51-52: (rel_x, rel_y) of point i, times 2 D
Rel(X, basis, fit, i) ==
  <<2 * fit.D * X[i][basis.x_axis] - fit.A, 2 * fit.D * X[i][basis.y_axis] - fit.B>>

\* the direction lies on an axis or on a diagonal
OnEighth(d) == d[1] = 0 \/ d[2] = 0 \/ Abs(d[1]) = Abs(d[2])

\* line 53: arctan2(rel_y, rel_x) in eighths of a turn, -3..4
Arctan2(d) ==
  IF d[2] = 0 THEN (IF d[1] >= 0 THEN 0 ELSE 4)
  ELSE IF d[1] = 0 THEN (IF d[2] > 0 THEN 2 ELSE -2)
  ELSE IF d[2] > 0 THEN (IF d[1] > 0 THEN 1 ELSE 3)
  ELSE (IF d[1] > 0 THEN -1 ELSE -3)

\* np.unwrap: a step between successive angles is brought into half a turn
\* either way; a step of half a turn, which rounding puts on either side, is
\* taken as it is or the other way round
Steps(dd) ==
  IF Abs(dd) < 4 THEN {dd}
  ELSE LET ddmod == ((dd + 4) % 8) - 4
       IN  IF ddmod = -4 THEN {-4, 4} ELSE {ddmod}

\* line 54: the unwrapped angles that can follow the unwrapped angle `up` of
\* angles[i - 1], as the pairs <<min, max>> of the whole sequence
RECURSIVE Unwrapped(_, _, _, _)
Unwrapped(angles, i, up, range) ==
  IF i > Len(angles) THEN {range}
  ELSE UNION {
         LET next == up + step
         IN  Unwrapped(angles, i + 1, next,
                       <<Min({range[1], next}), Max({range[2], next})>>)
         : step \in Steps(angles[i] - angles[i - 1]) }

\* lines 51-56: min(abs(max - min), 2 pi); a list with a direction off the
\* eighths has an angle this model cannot write and is given every span
Spans(X, basis, fit) ==
  LET n == Len(X)
  IN  IF \A i \in 1..n : OnEighth(Rel(X, basis, fit, i))
      THEN LET angles == [i \in 1..n |-> Arctan2(Rel(X, basis, fit, i))]
           IN  {Min({Abs(r[2] - r[1]), 8}) :
                  r \in Unwrapped(angles, 2, angles[1], <<angles[1], angles[1]>>)}
      ELSE 0..8

\* the unit vector along axis k, pointing either way
Along(k, sign) == [j \in 1..3 |-> IF j = k THEN sign ELSE 0]

\* lines 4-58: every value the call can return; None is "no fit"
fit_circle_3d(points, min_points) ==
  IF Len(points) < min_points THEN {None}
  ELSE LET pts == Unique(points)
       IN  IF Len(pts) < min_points THEN {None}
           ELSE LET X == Centred(pts)
                IN  UNION {
                      LET fit == Lstsq(X, basis)
                          radius_sq == RadiusSq(X, fit)
                      IN  IF TooScattered(X, fit) THEN {None}
                          ELSE IF radius_sq[1] <= 0 THEN {None}
                          ELSE [center3d : {Center3d(pts, basis, fit)},
                                normal : {Along(basis.normal, 1), Along(basis.normal, -1)},
                                radius_sq : {Ratio(radius_sq[1], radius_sq[2] * Len(X) * Len(X))},
                                span : Spans(X, basis, fit)]
                      : basis \in Bases(X) }

MIN_POINTS == 4                 \* min_points, by default and at line 95 of the extractor

\* points of a plane: four on the circle of radius 1 about (1, 1) and four
\* on the line y = 0, which is the only line through four of them
FitPool == {<<2, 1>>, <<1, 2>>, <<0, 1>>, <<1, 0>>, <<0, 0>>, <<2, 0>>, <<3, 0>>}

\* where the plane lies in space: z = 0 with its axes along x and y, or
\* y = 0 with its axes along z and x
Placements == {"xy", "zx"}
Place(p, placement) ==
  IF placement = "xy" THEN <<p[1], p[2], 0>> ELSE <<p[2], 0, p[1]>>

FitInit ==
  /\ Constructed
  /\ \E flat \in UNION {[1..n -> FitPool] : n \in 0..MaxPoints} :
       \E placement \in Placements :
         call = [fn |-> "fit_circle_3d", pc |-> "call", flat |-> flat,
                 placement |-> placement,
                 points |-> [i \in 1..Len(flat) |-> Place(flat[i], placement)],
                 min_points |-> MIN_POINTS]
  /\ ret = None

\* fit_circle_3d(points, min_points) runs and returns
FitCircle3d ==
  /\ call.fn = "fit_circle_3d" /\ call.pc = "call"
  /\ \E fit \in fit_circle_3d(call.points, call.min_points) : ret' = fit
  /\ call' = [call EXCEPT !.pc = "returned"]
  /\ UNCHANGED served

FitNext == FitCircle3d

FitSpec == FitInit /\ [][FitNext]_vars

(* ------------------------------ claims ------------------------------ *)
Has(D, u) == u \in DOMAIN D
Pct(u) == PROGRESS[u].percent
ToggleThreads(u, h) ==
  {t \in Threads : thr[t].op = "toggle" /\ thr[t].uid = u /\ thr[t].hid = h}
RequestsOn(u) == {t \in Threads : thr[t].op # "idle" /\ thr[t].uid = u}

\* C1: whenever PROGRESS[uid].percent is 100 the worker of uid has made all
\* its writes to HOLE_DATA, MESH_FILES and SELECTED_HOLES and makes no more
C1_HundredIsTerminal ==
  \A u \in JobUids : (Has(PROGRESS, u) /\ Pct(u) = 100) => wpc[u] = "done"

\* a toggle of one of the job's hole ids that arrived after the job's worker
\* returned: the requests C2 and C10 speak of
LateToggle(t) ==
  /\ thr[t].op = "toggle" /\ thr[t].late
  /\ Has(HOLE_DATA, thr[t].uid) /\ thr[t].hid \in HoleIds(HOLE_DATA[thr[t].uid])
OnlyLateToggles(u) ==
  /\ deleted[u] = "no"
  /\ \E t \in RequestsOn(u) : thr[t].op = "toggle"
  /\ \A t \in RequestsOn(u) : thr[t].op = "toggle" => (LateToggle(t) /\ thr[t].pc = "done")

\* C2: toggles on one uid are atomic: two toggles of the same id never both
\* stand in the add branch, none is about to remove an id that is already
\* gone, and once the toggles on a finished job are all answered none has
\* failed and an id is selected iff it was toggled an odd number of times
C2_ToggleAtomic ==
  /\ \A t1, t2 \in Threads :
       (/\ t1 # t2 /\ LateToggle(t1) /\ LateToggle(t2)
        /\ thr[t1].pc = "l150" /\ thr[t2].pc = "l150"
        /\ thr[t1].uid = thr[t2].uid) => thr[t1].hid # thr[t2].hid
  /\ \A t \in Threads :
       (LateToggle(t) /\ thr[t].pc = "l148" /\ Has(SELECTED_HOLES, thr[t].uid))
         => thr[t].hid \in SELECTED_HOLES[thr[t].uid]
  /\ \A u \in JobUids :
       OnlyLateToggles(u) =>
         /\ \A t \in RequestsOn(u) : thr[t].op = "toggle" => thr[t].status = "200"
         /\ \A h \in HoleIdArgs \ {0} :
              (h \in SELECTED_HOLES[u]) <=> (Cardinality(ToggleThreads(u, h)) % 2 = 1)

\* C3: the percent of a job never decreases: the worker's writes follow
\* 0 -> 5 -> 15 -> 40 -> 75 -> 100, 40 -> 100 or a stage -> 100, and the
\* values successive /progress responses carry for a uid are non-decreasing
WorkerTransitions ==
  {<<0, 5>>, <<5, 15>>, <<15, 40>>, <<40, 75>>, <<75, 100>>, <<40, 100>>,
   <<5, 100>>, <<15, 100>>}

C3_PercentMonotone ==
  [][\A u \in JobUids :
       /\ seen'[u] >= seen[u]
       /\ (Has(PROGRESS, u) /\ Has(PROGRESS', u) /\ PROGRESS'[u] # PROGRESS[u])
            => <<Pct(u), PROGRESS'[u].percent>> \in WorkerTransitions]_vars

\* C3 witness: a poller read a value below 100 and the job has since reached 100
C3_Witness ==
  \E u \in JobUids : seen[u] \in 5..75 /\ Has(PROGRESS, u) /\ Pct(u) = 100

\* the three entries the outcomes speak of: all there unless a /delete was
\* issued for the uid, which may have removed some
Entries(P, M, H, d, u) == d[u] = "no" => (Has(P, u) /\ Has(M, u) /\ Has(H, u))

ErrorOutcome(u) ==
  /\ Entries(PROGRESS, MESH_FILES, HOLE_DATA, deleted, u)
  /\ Has(PROGRESS, u) => (Pct(u) = 100 /\ IsError(PROGRESS[u].status))
  /\ Has(HOLE_DATA, u) => HOLE_DATA[u] = <<>>
  /\ Has(MESH_FILES, u) => MESH_FILES[u] = None

NoMeshOutcome(u) ==
  /\ Entries(PROGRESS, MESH_FILES, HOLE_DATA, deleted, u)
  /\ Has(PROGRESS, u) => PROGRESS[u] = NoMeshProgress
  /\ Has(HOLE_DATA, u) => HOLE_DATA[u] = holes[u]
  /\ Has(MESH_FILES, u) => MESH_FILES[u] = None

C5_EventuallyHundred ==
  /\ \A u \in JobUids : (wpc[u] = "l23") ~> (Has(PROGRESS, u) /\ Pct(u) = 100)
  /\ \A u \in JobUids : (wpc[u] = "l23") ~> (wpc[u] = "done")
  /\ [](\A u \in JobUids : (wpc[u] = "done" /\ Has(PROGRESS, u)) => Pct(u) = 100)

\* C5 witness: a job at 100 with its worker finished while a request is in flight
C5_Witness ==
  \E u \in JobUids :
    /\ wpc[u] = "done" /\ Has(PROGRESS, u) /\ Pct(u) = 100
    /\ \E t \in Threads : thr[t].op # "idle" /\ thr[t].pc # "done"

\* C6: a triangulation with no vertex or no face completes the job as a
\* success: when the worker returns, SELECTED_HOLES[uid] is the empty set,
\* percent is 100 with a status that is not an error, HOLE_DATA[uid] is the
\* list combine_and_group returned and MESH_FILES[uid] is None (for each
\* entry a /delete has not removed)
C6_NoMeshIsSuccess ==
  [][\A u \in JobUids :
       (wpc[u] # "done" /\ wpc'[u] = "done" /\ mesh'[u] = "empty") =>
         /\ Has(SELECTED_HOLES', u) /\ SELECTED_HOLES'[u] = {}
         /\ Entries(PROGRESS', MESH_FILES', HOLE_DATA', deleted', u)
         /\ Has(PROGRESS', u) =>
              (PROGRESS'[u].percent = 100 /\ ~IsError(PROGRESS'[u].status))
         /\ Has(HOLE_DATA', u) => HOLE_DATA'[u] = holes'[u]
         /\ Has(MESH_FILES', u) => MESH_FILES'[u] = None]_vars

\* C6 witness: a finished job with holes and no mesh after an empty triangulation
C6_Witness ==
  \E u \in JobUids :
    /\ wpc[u] = "done" /\ mesh[u] = "empty" /\ exc[u] = "none"
    /\ deleted[u] = "no" /\ PROGRESS[u] = NoMeshProgress
    /\ Len(HOLE_DATA[u]) > 0 /\ MESH_FILES[u] = None

\* C7: once /delete?uid=U has returned and U's worker has finished, no
\* dictionary holds key U and neither file of U exists (stated for a uid no
\* toggle was sent for)
C7_DeleteWins ==
  \A u \in JobUids :
    (/\ deleted[u] = "returned" /\ wpc[u] = "done"
     /\ \A t \in RequestsOn(u) : thr[t].op # "toggle"
     /\ \A t \in RequestsOn(u) : thr[t].op = "delete" => thr[t].pc = "done")
      => /\ ~Has(PROGRESS, u) /\ ~Has(MESH_FILES, u)
         /\ ~Has(HOLE_DATA, u) /\ ~Has(SELECTED_HOLES, u)
         /\ u \notin meshDisk /\ ~Has(holesDisk, u)

\* C8: a /progress or /api/export request never ends in an unhandled KeyError
C8_ReadersTolerateMissingKey ==
  \A t \in Threads :
    thr[t].op \in {"progress", "export"} => thr[t].status # "KeyError"

\* C9: a toggle for a uid that names no job is answered 'not found' and
\* creates no entry, and every selection set holds ids of the job's holes only
C9_UnknownToggleNotFound ==
  /\ \A t \in Threads :
       (thr[t].op = "toggle" /\ thr[t].pc = "done" /\ thr[t].uid = Bogus)
         => thr[t].status = "404"
  /\ ~Has(SELECTED_HOLES, Bogus)
  /\ \A u \in JobUids :
       Has(SELECTED_HOLES, u) =>
         SELECTED_HOLES[u] \subseteq (IF Has(HOLE_DATA, u) THEN HoleIds(HOLE_DATA[u]) ELSE {})

\* C10: a toggle with a non-zero id on a finished job flips the membership
\* of that id: its add makes an absent id present, its remove makes a
\* present id absent, only that id of that uid changes, and the request is
\* answered with the resulting set
C10_ToggleFlips ==
  [][\A t \in Threads :
       (LateToggle(t) /\ deleted[thr[t].uid] = "no") =>
         /\ (thr[t].pc = "l150" /\ thr'[t].pc # "l150") =>
              /\ thr'[t].pc = "l155"
              /\ thr[t].hid \notin SELECTED_HOLES[thr[t].uid]
              /\ SELECTED_HOLES' = Put(SELECTED_HOLES, thr[t].uid,
                                       SELECTED_HOLES[thr[t].uid] \cup {thr[t].hid})
         /\ (thr[t].pc = "l148" /\ thr'[t].pc # "l148") =>
              /\ thr'[t].pc = "l155"
              /\ thr[t].hid \in SELECTED_HOLES[thr[t].uid]
              /\ SELECTED_HOLES' = Put(SELECTED_HOLES, thr[t].uid,
                                       SELECTED_HOLES[thr[t].uid] \ {thr[t].hid})
         /\ (thr[t].pc = "l155" /\ thr'[t].pc = "done") =>
              /\ thr'[t].status = "200"
              /\ thr'[t].body = SELECTED_HOLES[thr[t].uid]]_vars

(* --------------------------- export claims --------------------------- *)
\* the number of selected holes among the first i holes of hs
Rank(hs, sel, i) == Cardinality({j \in 1..i : hs[j].id \in sel})

Exported(t) == thr[t].op = "export" /\ thr[t].status = "200"

\* C11: an answered /api/export wrote exactly one record per hole whose id
\* is selected and none for another hole, in list order, the i-th labelled
\* BS-i with Shape 2 and group 0; the count of the response is the number of
\* selected holes; the export changes neither HOLE_DATA nor SELECTED_HOLES
C11_ExportSelected ==
  /\ [](\A t \in Threads :
          Exported(t) =>
            LET hs == HOLE_DATA[thr[t].uid]
                sel == SELECTED_HOLES[thr[t].uid]
                recs == exportDisk[thr[t].uid]
                k == Rank(hs, sel, Len(hs))
            IN  /\ Len(recs) = k
                /\ thr[t].count = k
                /\ \A i \in 1..k :
                     /\ recs[i].HoleID = <<"BS", i>>
                     /\ recs[i].Shape = 2
                     /\ recs[i].group = 0
                /\ \A j \in 1..Len(hs) :
                     hs[j].id \in sel =>
                       recs[Rank(hs, sel, j)] = ExportRecord(Rank(hs, sel, j), hs[j]))
  /\ [][HOLE_DATA' = HOLE_DATA /\ SELECTED_HOLES' = SELECTED_HOLES]_vars

\* C11 witness: of two different holes only the second is selected, with an
\* id that names no hole beside it, and the export answered with count 1
C11_Witness ==
  \E t \in Threads :
    /\ Exported(t) /\ thr[t].count = 1
    /\ Len(HOLE_DATA[thr[t].uid]) = 2
    /\ HOLE_DATA[thr[t].uid][1].radius # HOLE_DATA[thr[t].uid][2].radius
    /\ SELECTED_HOLES[thr[t].uid] = {2, 3}

\* x is a multiple of m nearest to num / den
IsRounded(x, num, den, m) ==
  /\ x % m = 0
  /\ 2 * (den * x - num) <= den * m
  /\ 2 * (num - den * x) <= den * m

\* the corner p is (cx + sx * 0.7 r, cy + sy * 0.7 r, cz), each coordinate
\* rounded to 2 decimals
IsCorner(p, h, sx, sy) ==
  /\ IsRounded(p.x, 10 * h.center[1] + sx * 7 * h.radius, 10, Unit \div 100)
  /\ IsRounded(p.y, 10 * h.center[2] + sy * 7 * h.radius, 10, Unit \div 100)
  /\ IsRounded(p.z, h.center[3], 1, Unit \div 100)

Corner(x, y, z) == [x |-> x, y |-> y, z |-> z]

\* C12: the record of an exported hole with centre (cx, cy, cz) and radius r
\* holds, with off = 0.7 r, point1 = (cx+off, cy+off, cz), point2 = (cx-off,
\* cy+off, cz), point3 = (cx-off, cy-off, cz), point4 = (cx+off, cy-off, cz),
\* each coordinate rounded to 2 decimals, the radius rounded to 4 and the
\* score to 2; centre (10, 20, 5) and radius 6.0 give (14.2, 24.2, 5),
\* (5.8, 24.2, 5), (5.8, 15.8, 5), (14.2, 15.8, 5)
C12_ExportCorners ==
  \A t \in Threads :
    Exported(t) =>
      LET hs == HOLE_DATA[thr[t].uid]
          sel == SELECTED_HOLES[thr[t].uid]
          recs == exportDisk[thr[t].uid]
      IN  \A j \in 1..Len(hs) :
            hs[j].id \in sel =>
              LET h == hs[j]
                  rec == recs[Rank(hs, sel, j)]
              IN  /\ IsCorner(rec.point1, h, 1, 1)
                  /\ IsCorner(rec.point2, h, -1, 1)
                  /\ IsCorner(rec.point3, h, -1, -1)
                  /\ IsCorner(rec.point4, h, 1, -1)
                  /\ IsRounded(rec.radius, h.radius, 1, Unit \div 10000)
                  /\ IsRounded(rec.score, h.score, 1, Unit \div 100)
                  /\ (h.center = <<10000000, 20000000, 5000000>> /\ h.radius = 6000000)
                       => /\ rec.point1 = Corner(14200000, 24200000, 5000000)
                          /\ rec.point2 = Corner(5800000, 24200000, 5000000)
                          /\ rec.point3 = Corner(5800000, 15800000, 5000000)
                          /\ rec.point4 = Corner(14200000, 15800000, 5000000)

\* C12 witness: an export answered for the hole of the example and for a hole
\* whose corners, radius and score all had to be rounded
C12_Witness ==
  \E t \in Threads :
    /\ Exported(t) /\ thr[t].count = 2
    /\ HOLE_DATA[thr[t].uid] = <<SampleHole(1), OddHole(2)>>
    /\ exportDisk[thr[t].uid][2].radius = 6123500
    /\ exportDisk[thr[t].uid][2].score = 57130000
    /\ exportDisk[thr[t].uid][2].point1 = Corner(1140000, 7000000, 120000)

(* -------------------------- isolation claims -------------------------- *)
\* dictionaries D1 and D2 agree on key v: both lack it or both map it alike
SameEntry(D1, D2, v) ==
  /\ Has(D1, v) <=> Has(D2, v)
  /\ Has(D1, v) => D1[v] = D2[v]

\* C13: a step of the worker of uid u, its error path included, (and the
\* upload that starts it) writes only the entries keyed u of PROGRESS,
\* MESH_FILES, HOLE_DATA and SELECTED_HOLES and only the files mesh_u.json
\* and holes_u.json: for every other uid v the four entries, the two files
\* and the locals of v's worker are as they were
C13_JobIsolation ==
  [][\A u \in IsoUids :
       wpc'[u] # wpc[u] =>
         \A v \in (IsoUids \cup {Bogus}) \ {u} :
           /\ SameEntry(PROGRESS, PROGRESS', v)
           /\ SameEntry(MESH_FILES, MESH_FILES', v)
           /\ SameEntry(HOLE_DATA, HOLE_DATA', v)
           /\ SameEntry(SELECTED_HOLES, SELECTED_HOLES', v)
           /\ (v \in meshDisk) <=> (v \in meshDisk')
           /\ SameEntry(holesDisk, holesDisk', v)
           /\ v \in IsoUids =>
                (holes'[v] = holes[v] /\ mesh'[v] = mesh[v] /\ exc'[v] = exc[v])]_vars

\* C13 witness: one worker is inside its error path while the job of the
\* other uid is done and holds holes, a mesh path and both files
C13_Witness ==
  \E u, v \in IsoUids :
    /\ u # v
    /\ wpc[u] = "l68" /\ HOLE_DATA[u] = <<>>
    /\ wpc[v] = "done" /\ PROGRESS[v] = DoneProgress(Len(HOLE_DATA[v]))
    /\ Len(HOLE_DATA[v]) > 0 /\ v \in meshDisk /\ Has(holesDisk, v)
    /\ MESH_FILES[v] = MeshPath(v)

(* ------------------------- persistence claims ------------------------- *)
\* C14: a job that ended at 100 with a status that is not an error (the 'No
\* mesh produced' outcome included) has its holes persisted: the document
\* holes_<uid>.json exists and holds exactly HOLE_DATA[uid] (stated for a
\* uid no /delete was sent for)
C14_HolesPersisted ==
  \A u \in JobUids :
    (/\ wpc[u] = "done" /\ deleted[u] = "no"
     /\ Has(PROGRESS, u) /\ Pct(u) = 100 /\ ~IsError(PROGRESS[u].status))
      => /\ Has(holesDisk, u) /\ Has(HOLE_DATA, u)
         /\ holesDisk[u] = HOLE_DATA[u]

(* ------------------------- aggregation claims ------------------------- *)
Returned(fn) == call.fn = fn /\ call.pc = "returned"

\* the holes of the call in ranked order, each under the id it got when its
\* cluster was visited (line 212): its place in cluster label order
Discovered == Ranked(FuseAll(Clusters(SelectSeq(call.all_circles, InWindow)), <<>>))

\* C15: the list combine_and_group returns is sorted by score in
\* non-increasing order, holes of equal score stand in the order in which
\* their clusters were visited (ascending label), and the hole at position i
\* has id i
C15_RankedAndNumbered ==
  Returned("combine_and_group") =>
    /\ Len(ret) = Len(Discovered)
    /\ \A i \in 1..Len(ret) :
         /\ ret[i].id = i
         /\ ret[i] = [Discovered[i] EXCEPT !.id = i]
    /\ \A i, j \in 1..Len(ret) :
         i < j =>
           /\ ret[i].score >= ret[j].score
           /\ ret[i].score = ret[j].score => Discovered[i].id < Discovered[j].id

\* C15 witness: an analytic candidate and two fitted ones gave three holes;
\* the cluster visited first ranks last and the other two are tied
C15_Witness ==
  /\ Returned("combine_and_group") /\ call.run = 1
  /\ Len(ret) = 3
  /\ call.all_circles[1].source = "analytic_edge"
  /\ ret[3].center = call.all_circles[1].center
  /\ ret[1].score = ret[2].score /\ ret[2].score > ret[3].score
  /\ ret[1].center = call.all_circles[2].center

\* the clusters of the candidates inside the radius window
InputClusters == Clusters(SelectSeq(call.all_circles, InWindow))

\* the fused axis of the group has |axis_z| >= 0.15: z^2 >= (9/400) norm^2
Upright(group) ==
  LET axis == AxisSum(group)
  IN  400 * axis[3] * axis[3]
        >= 9 * (axis[1] * axis[1] + axis[2] * axis[2] + axis[3] * axis[3])

\* the hole h was made of the group: its centre is the median of the
\* members' centres and it counts the members
MadeOf(h, group) ==
  /\ h.num_circles = Len(group)
  /\ \A d \in 1..3 : h.center[d] = Median([i \in 1..Len(group) |-> group[i].center[d]])

C17_OutOfWindowIgnored ==
  Returned("combine_and_group") =>
    /\ ret = combine_and_group(SelectSeq(call.all_circles,
               LAMBDA c : RADIUS_MIN <= c.radius /\ c.radius <= RADIUS_MAX))
    /\ \A i \in 1..Len(ret) :
         \E k \in 1..Len(InputClusters) :
           LET group == InputClusters[k]
           IN  /\ MadeOf(ret[i], group)
               /\ ret[i].radius = Median([m \in 1..Len(group) |-> group[m].radius])
               /\ ret[i].sources = {group[m].source : m \in 1..Len(group)}

\* C17 witness: a circle of radius 1.0 lies within reach of two candidates
\* that are out of each other's reach, and two holes of one circle each
\* were returned
C17_Witness ==
  /\ Returned("combine_and_group") /\ call.run = 1
  /\ Len(call.all_circles) = 3
  /\ \E i, j, k \in 1..3 :
       /\ call.all_circles[k].radius < RADIUS_MIN
       /\ InWindow(call.all_circles[i]) /\ InWindow(call.all_circles[j])
       /\ Near(call.all_circles[i], call.all_circles[k])
       /\ Near(call.all_circles[k], call.all_circles[j])
       /\ ~Near(call.all_circles[i], call.all_circles[j])
  /\ Len(ret) = 2 /\ ret[1].num_circles = 1 /\ ret[2].num_circles = 1

(* --------------------------- scoring claims --------------------------- *)
\* C18: for every group (any size >= 1, any combination of source tags), any
\* avg_radius and any alignment in [0, 1], calculate_hole_score returns a
\* value s with 0 <= s <= 100
C18_ScoreInRange ==
  Returned("calculate_hole_score") => (0 <= ret /\ ret <= 100 * Point8)

\* C18 witness: three members of the three sources at the ideal radius and
\* alignment 1 sum to 25 + 15 + 32 + 15 + 10 + 5 = 102, and 100 was returned
C18_Witness ==
  /\ Returned("calculate_hole_score")
  /\ Len(call.group) = 3 /\ SourcesOf(call.group) = Sources
  /\ call.avg_radius = 22 /\ call.alignment = AlignOne
  /\ RadiusTerm(22) + AlignmentTerm(AlignOne) + SupportTerm(3)
       + SourceTerm(Sources, 3) = 102 * Point8
  /\ ret = 100 * Point8

\* the call of C19: one analytic_edge and one cylindrical_face candidate,
\* radius 6.0, axis (0, 0, 1), centres within CIRCLE_GROUPING_DISTANCE
AnalyticAndCylinder ==
  /\ Returned("combine_and_group") /\ call.run = 1
  /\ Len(call.all_circles) = 2
  /\ {call.all_circles[1].source, call.all_circles[2].source}
       = {"analytic_edge", "cylindrical_face"}
  /\ \A i \in 1..2 : call.all_circles[i].radius = 6 * Quarter
                      /\ call.all_circles[i].axis = Up
  /\ LET a == call.all_circles[1].center
         b == call.all_circles[2].center
     IN  (a[1] - b[1]) * (a[1] - b[1]) + (a[2] - b[2]) * (a[2] - b[2])
           + (a[3] - b[3]) * (a[3] - b[3])
         <= CIRCLE_GROUPING_DISTANCE * CIRCLE_GROUPING_DISTANCE

\* a score given in hundredths of a point
Points(hundredths) == (hundredths * Point8) \div 100

MergedInOne ==
  /\ Len(ret) = 1
  /\ ret[1].num_circles = 2
  /\ ret[1].sources = {"analytic_edge", "cylindrical_face"}

\* C19 as claimed: the two candidates are merged into exactly one hole with
\* num_circles = 2 and both sources, whose score is 24.25 + 15 + 24 + 15 + 10
\* = 88.25
C19_MergedScore8825 ==
  AnalyticAndCylinder =>
    /\ MergedInOne
    /\ ret[1].score = Points(8825)

\* C19 amended: the two candidates are merged into exactly one hole with
\* num_circles = 2 and both sources, whose score holds the 15-point
\* cylindrical and the 10-point analytic bonus; its alignment is just under
\* 1 (the fused axis is divided by norm + 1e-10), so the alignment term is
\* just under 15 and the score just under 88.25 (88.125 to the eighth below)
C19_MergedBothBonuses ==
  AnalyticAndCylinder =>
    /\ MergedInOne
    /\ ret[1].vertical_alignment < AlignOne
    /\ ret[1].vertical_alignment >= AlignOne - 1
    /\ ret[1].score = Points(2425) + AlignmentTerm(ret[1].vertical_alignment)
                        + (24 + 15 + 10) * Point8
    /\ ret[1].score < Points(8825)
    /\ ret[1].score >= Points(8825) - 1

\* C19 witness: the call was made and returned one hole
C19_Witness ==
  /\ AnalyticAndCylinder
  /\ call.all_circles[1].source = "analytic_edge"
  /\ call.all_circles[1].center # call.all_circles[2].center
  /\ Len(ret) = 1 /\ ret[1].num_circles = 2

\* the second call has returned: the holes of the first call, each as one
\* candidate of a single source, were grouped again
Regrouped == Returned("combine_and_group") /\ call.run = 2

\* C20: grouping the centres of the produced holes again (each as one
\* single-source candidate with the hole's radius and a vertical axis) gives
\* the same number of holes, each with its centre unchanged
C20_ClusterIdempotent ==
  Regrouped =>
    /\ Len(ret) = Len(call.first)
    /\ \A i \in 1..Len(call.first) :
         \E j \in 1..Len(ret) : ret[j].center = call.first[i].center

(* ----------------------------- mesh claims ----------------------------- *)
\* the call of extract_mesh_from_shape returned without a kernel error
MeshBuilt == Returned("extract_mesh_from_shape") /\ ~call.shape.raises

\* the nodes and triangles the kernel gave, face after face
RawOf(shape) == Collect(shape.faces, <<>>, <<>>)

\* C21: the vertices returned are pairwise different, every face index is
\* below len(vertices), no raw triangle is dropped, and every index points to
\* the vertex with the coordinates of the raw node it replaced
C21_MeshDeduplicated ==
  MeshBuilt =>
    LET vertices == ret[1]
        faces == ret[2]
        raw == RawOf(call.shape)
    IN  /\ \A i, j \in 1..Len(vertices) : vertices[i] = vertices[j] => i = j
        /\ \A f \in 1..Len(faces) : \A k \in 1..3 :
             faces[f][k] >= 0 /\ faces[f][k] < Len(vertices)
        /\ Len(faces) = Len(raw.raw_faces)
        /\ \A f \in 1..Len(faces) : \A k \in 1..3 :
             At0(vertices, faces[f][k]) = At0(raw.raw_vertices, raw.raw_faces[f][k])

\* C21 witness: two faces, at different locations, share a node at the same
\* coordinates and the triangles of both refer to one vertex entry
C21_Witness ==
  /\ MeshBuilt
  /\ Len(call.shape.faces) = 2
  /\ call.shape.faces[1] # None /\ call.shape.faces[2] # None
  /\ call.shape.faces[1].loc # call.shape.faces[2].loc
  /\ Len(ret[1]) < Len(RawOf(call.shape).raw_vertices)
  /\ \E f, g \in 1..Len(ret[2]) : \E k, m \in 1..3 :
       /\ RawOf(call.shape).raw_faces[f][k] < 3
       /\ RawOf(call.shape).raw_faces[g][m] >= 3
       /\ ret[2][f][k] = ret[2][g][m]

(* --------------------------- extractor claims --------------------------- *)
Scanning == call.fn \in Extractors
Scanned == Scanning /\ call.pc = "returned"

\* the radius window and the vertical alignment of a candidate
InRadiusWindow(c) == RADIUS_MIN <= c.radius /\ c.radius <= RADIUS_MAX
VerticalEnough(c) ==
  400 * c.axis[3] * c.axis[3]
    >= 9 * (c.axis[1] * c.axis[1] + c.axis[2] * c.axis[2] + c.axis[3] * c.axis[3])

\* C22: every candidate an extractor has appended has RADIUS_MIN <= radius <=
\* RADIUS_MAX and |axis_z| >= MIN_VERTICAL_ALIGNMENT
C22_CandidatesFiltered ==
  Scanning =>
    \A i \in 1..Len(call.circles) :
      InRadiusWindow(call.circles[i]) /\ VerticalEnough(call.circles[i])

\* what the kernel, the sampler and the fitter say of an element that raises
\* nothing: whether the extractor's filters let it through
Passing(fn, e) ==
  /\ ~e.raises
  /\ InRadiusWindow(e)
  /\ CASE fn = "extract_analytic_circular_edges" ->
            e.type = "circle" /\ VerticalEnough(e)
       [] fn = "extract_cylindrical_faces" ->
            e.type = "cylinder" /\ VerticalEnough(e)
       [] OTHER ->
            /\ e.type # "circle" /\ e.sampled >= 4 /\ e.fit
            /\ e.span >= ARC_MIN_SPAN_RAD

SourceOf(fn) ==
  CASE fn = "extract_analytic_circular_edges" -> "analytic_edge"
    [] fn = "extract_cylindrical_faces" -> "cylindrical_face"
    [] OTHER -> "fitted_edge"

\* C28: whichever elements raise, the scan ends, its body has run on every
\* element exactly once, and it returns the candidates of the elements that
\* raise nothing and pass the filters, in the order of the enumeration
C28_ScanSkipsFailures ==
  /\ <>Scanned
  /\ [](Scanning => \A i \in 1..Len(call.shape) : call.visits[i] <= 1)
  /\ [](Scanned =>
          LET kept == SelectSeq(call.shape, LAMBDA e : Passing(call.fn, e))
          IN  /\ \A i \in 1..Len(call.shape) : call.visits[i] = 1
              /\ Len(ret) = Len(kept)
              /\ \A i \in 1..Len(kept) :
                   ret[i] = Circle(SourceOf(call.fn), kept[i].center,
                                   kept[i].radius, kept[i].axis))

\* C28 witness: a scan of two edges, the first raising and the second
\* giving a candidate, has returned that candidate
C28_Witness ==
  /\ Scanned /\ Len(call.shape) = 2
  /\ call.shape[1].raises /\ ~call.shape[2].raises
  /\ Len(ret) = 1

(* ---------------------------- sampler claims ---------------------------- *)
\* C23: whichever kernel calls fail, sample_edge_points returns at most
\* n_samples points, and either none or at least 4 made by one strategy
C23_SampleAllOrNothing ==
  Returned("sample_edge_points") =>
    /\ Len(ret) <= call.n_samples
    /\ \/ ret = <<>>
       \/ /\ Len(ret) >= 4
          /\ \A i, j \in 1..Len(ret) : ret[i][1] = ret[j][1]

(* ----------------------------- fitter claims ----------------------------- *)
Fitted == Returned("fit_circle_3d")

\* the number of different points of the list
Distinct(points) == Cardinality({points[i] : i \in 1..Len(points)})

\* all points of the list lie on one line: every pair of differences from
\* the first point has cross product 0
Collinear(points) ==
  \A i, j \in 1..Len(points) :
    LET u == [k \in 1..3 |-> points[i][k] - points[1][k]]
        v == [k \in 1..3 |-> points[j][k] - points[1][k]]
    IN  /\ u[2] * v[3] = u[3] * v[2]
        /\ u[3] * v[1] = u[1] * v[3]
        /\ u[1] * v[2] = u[2] * v[1]

\* C24: fit_circle_3d returns None when the list has fewer than min_points
\* distinct points and when all its points are collinear
C24_DegenerateNoFit ==
  Fitted /\ (Distinct(call.points) < call.min_points \/ Collinear(call.points))
    => ret = None

\* the points sampled on the circle of radius 1 about (1, 1) over a full
\* revolution: a quarter turn from each to the next, either way round, the
\* last being the first again
Revolution ==
  /\ Fitted /\ Len(call.flat) = 5
  /\ call.flat[5] = call.flat[1]
  /\ \E turn \in {1, -1} :
       \A i \in 1..4 :
         LET d == <<call.flat[i][1] - 1, call.flat[i][2] - 1>>
             e == <<call.flat[i + 1][1] - 1, call.flat[i + 1][2] - 1>>
         IN  /\ d[1] * d[1] + d[2] * d[2] = 1
             /\ e = <<-turn * d[2], turn * d[1]>>

\* centre, radius and axis (up to sign) of the circle are returned
Recovered ==
  /\ ret # None
  /\ ret.center3d = [k \in 1..3 |-> Whole(Place(<<1, 1>>, call.placement)[k])]
  /\ ret.radius_sq = Whole(1)
  /\ \E sign \in {1, -1} :
       ret.normal = [k \in 1..3 |->
                       IF Place(<<1, 1>>, call.placement)[k] = 0 THEN sign ELSE 0]

\* C25 as claimed: for points sampled exactly on a circle over a full
\* revolution the fit returns its centre, radius, axis up to sign and a span
\* of a whole turn
C25_RoundTripSpanWhole == Revolution => Recovered /\ ret.span = 8

\* C25 amended: for points sampled exactly on a circle at equal steps over a
\* full revolution the fit returns its centre, radius and axis up to sign,
\* and a span of a whole turn less one step (here four steps of a quarter turn)
C25_RoundTripSpanLessOneStep == Revolution => Recovered /\ ret.span = 8 - 2

\* C25 witness: a fit of five samples of a revolution in the plane y = 0
C25_Witness == Revolution /\ call.placement = "zx" /\ ret # None

(* --------------------------- clustering claims --------------------------- *)
\* the in-window candidates of the call, in input order
InWindowCandidates == SelectSeq(call.all_circles, InRadiusWindow)

\* sqrt(dx^2 + dy^2 + (dz / 3)^2) <= 4.0, lengths in quarters
Within4(a, b) ==
  LET dx == a.center[1] - b.center[1]
      dy == a.center[2] - b.center[2]
      dz == a.center[3] - b.center[3]
  IN  9 * (dx * dx + dy * dy) + dz * dz <= 9 * 16 * 16

\* the candidates a chain of such steps joins to candidate i
RECURSIVE Chained(_, _)
Chained(cs, S) ==
  LET T == S \cup {j \in 1..Len(cs) : \E i \in S : Within4(cs[i], cs[j])}
  IN  IF T = S THEN S ELSE Chained(cs, T)

\* how often candidate c occurs in the list
Count(cs, c) == Cardinality({i \in 1..Len(cs) : cs[i] = c})

\* C26: the clusters of combine_and_group partition the in-window candidates
\* (each occurs in one cluster, as often as in the input), two candidates
\* share a cluster iff a chain of steps of scaled length <= 4.0 joins them,
\* the cluster sizes sum to the number of in-window candidates, and every
\* hole returned counts the members of a cluster of its own
C26_SingleLinkPartition ==
  Returned("combine_and_group") =>
    LET cs == InWindowCandidates
        groups == Clusters(cs)
        sizes == [k \in 1..Len(groups) |-> Len(groups[k])]
    IN  /\ \A i \in 1..Len(cs) :
             \E k \in 1..Len(groups) :
               /\ Count(groups[k], cs[i]) = Count(cs, cs[i])
               /\ \A m \in 1..Len(groups) : m # k => Count(groups[m], cs[i]) = 0
        /\ \A i, j \in 1..Len(cs) :
             (\E k \in 1..Len(groups) :
                Count(groups[k], cs[i]) > 0 /\ Count(groups[k], cs[j]) > 0)
               <=> j \in Chained(cs, {i})
        /\ Sum(sizes) = Len(cs)
        /\ \E of \in [1..Len(ret) -> 1..Len(groups)] :
             /\ \A i, j \in 1..Len(ret) : of[i] = of[j] => i = j
             /\ \A i \in 1..Len(ret) : MadeOf(ret[i], groups[of[i]])

\* C26 witness: three candidates of which the first and the last are joined
\* only through the middle one came back as one hole of three circles
C26_Witness ==
  /\ Returned("combine_and_group") /\ call.run = 1
  /\ Len(InWindowCandidates) = 3
  /\ Within4(InWindowCandidates[1], InWindowCandidates[2])
  /\ Within4(InWindowCandidates[2], InWindowCandidates[3])
  /\ ~Within4(InWindowCandidates[1], InWindowCandidates[3])
  /\ Len(ret) = 1 /\ ret[1].num_circles = 3

(* ----------------------------- score claims ----------------------------- *)
\* the support and the source term as the claim gives them, in points
SupportPoints(n) == IF n >= 4 THEN 40 ELSE IF n = 3 THEN 32 ELSE IF n = 2 THEN 24 ELSE 15
SourcePoints(group) ==
  LET has(src) == \E i \in 1..Len(group) : group[i].source = src
  IN  (IF has("cylindrical_face") THEN 15 ELSE 0)
      + (IF has("analytic_edge") THEN 10 ELSE 0)
      + (IF has("fitted_edge") THEN (IF Len(group) >= 2 THEN 5 ELSE 3) ELSE 0)

\* C27: calculate_hole_score is min(100, max(0, radius_term + alignment_term
\* + support_term + source_term)), the support term being 40, 32, 24 or 15
\* by group size and the three source bonuses adding up
C27_ScoreIsClampedSum ==
  Returned("calculate_hole_score") =>
    LET sum == RadiusTerm(call.avg_radius) + AlignmentTerm(call.alignment)
                 + (SupportPoints(Len(call.group)) + SourcePoints(call.group)) * Point8
    IN  ret = Min({100 * Point8, Max({0, sum})})

\* C27 witness: a group of three, one of each source, far from the ideal
\* radius and not aligned, scored 32 + 15 + 10 + 5 = 62
C27_Witness ==
  /\ Returned("calculate_hole_score")
  /\ Len(call.group) = 3
  /\ {call.group[i].source : i \in 1..3} = Sources
  /\ ret = 62 * Point8

(* ---------------------------- axis sign claims ---------------------------- *)
\* the candidates with the axes of those in S turned round
Negated(cs, S) ==
  [i \in 1..Len(cs) |->
     IF i \in S THEN [cs[i] EXCEPT !.axis = <<-@[1], -@[2], -@[3]>>] ELSE cs[i]]

\* C29: turning round the axes of any of the candidates leaves the holes
\* returned unchanged, and a cluster whose members all have |axis_z| >=
\* MIN_VERTICAL_ALIGNMENT gives a hole
C29_AxisSignFree ==
  Returned("combine_and_group") =>
    /\ \A S \in SUBSET (1..Len(call.all_circles)) :
         combine_and_group(Negated(call.all_circles, S)) = ret
    /\ LET groups == Clusters(InWindowCandidates)
       IN  \A k \in 1..Len(groups) :
             (\A m \in 1..Len(groups[k]) : VerticalEnough(groups[k][m]))
               => \E i \in 1..Len(ret) : MadeOf(ret[i], groups[k])

(* --------------------------- score filter claims --------------------------- *)
\* the call scores a cluster that passed the radius window and the
\* alignment filter
ScoredCluster ==
  /\ Returned("calculate_hole_score")
  /\ RADIUS_MIN <= call.avg_radius /\ call.avg_radius <= RADIUS_MAX
  /\ call.alignment >= MIN_VERTICAL_ALIGNMENT

LoneFitted(group) == Len(group) = 1 /\ group[1].source = "fitted_edge"

\* C30 as claimed: a cluster of two or more members, or with an analytic or
\* cylindrical member, scores at least MIN_SCORE_THRESHOLD, and a lone
\* fitted_edge candidate can score below it
C30_LoneFittedCanFail ==
  /\ ScoredCluster /\ ~LoneFitted(call.group) => ret >= MIN_SCORE_THRESHOLD
  /\ \E r \in RADIUS_MIN..RADIUS_MAX :
       \E fitted \in {c \in Pool : c.source = "fitted_edge"} :
         calculate_hole_score(<<fitted>>, fitted, r, MIN_VERTICAL_ALIGNMENT)
           < MIN_SCORE_THRESHOLD

\* C30 amended: every cluster that passed the radius window and the
\* alignment filter scores at least MIN_SCORE_THRESHOLD, a lone fitted_edge
\* candidate at least 21.25, so the score filter removes nothing
C30_NothingBelowThreshold ==
  /\ ScoredCluster => ret >= MIN_SCORE_THRESHOLD
  /\ ScoredCluster /\ LoneFitted(call.group) => ret >= Points(2125)
  /\ \A r \in RADIUS_MIN..RADIUS_MAX :
       \A fitted \in {c \in Pool : c.source = "fitted_edge"} :
         calculate_hole_score(<<fitted>>, fitted, r, MIN_VERTICAL_ALIGNMENT)
           >= Points(2125)

\* C30 witness: a lone fitted_edge candidate of radius 20.0 and alignment
\* 0.15 scored 3.25 + 0 + 15 + 3 = 21.25
C30_Witness ==
  /\ ScoredCluster /\ LoneFitted(call.group)
  /\ call.avg_radius = RADIUS_MAX /\ call.alignment = MIN_VERTICAL_ALIGNMENT
  /\ ret = Points(2125)

====
